---- MODULE Spec2Model ----
(***************************************************************************)
(* Higher-order function wrappers of the functional-programming notes:     *)
(* the memoizers memoize, memoize2, memoize3 and memoize4, and the         *)
(* recursive fib rebound to its own memoized wrapper.                      *)
(*                                                                         *)
(* JavaScript strings are modelled as sequences of one-character strings,  *)
(* so that property keys and JSON texts are computed character by          *)
(* character and two of them are equal exactly when the texts are.         *)
(***************************************************************************)
EXTENDS Integers, Sequences, FiniteSets, TLC

VARIABLES
    fn,          \* the function handed to the memoizer
    kind,        \* which memoizer built the two wrappers
    cache,       \* cache[w]: own properties of the cache object of wrapper w
    invoked,     \* invoked[w][key]: calls of fn made by wrapper w for key
    origin,      \* origin[w][key]: the arguments whose result is stored under key
    fnTotal,     \* calls of fn made through either wrapper
    last,        \* the latest wrapper call and its outcome
    ncalls,      \* wrapper calls made so far
    fibCaches,   \* one cache per `fib = memoize(fib)` executed, innermost first
    outerCache,  \* cache of testMemoFib = memoize(n => fib(n))
    stack,       \* call stack of the running fib computation
    retval,      \* value handed back by the frame that just returned
    fibCalls,    \* calls made through the global name fib during the current run
    bodyEvals,   \* bodyEvals[k]: evaluations of the fib body for k during the current run
    memoEvals,   \* memoEvals[k]: evaluations of the fib body for k since fib was rebound
    top,         \* the current (or latest) top-level call
    nruns,       \* top-level calls started so far
    fBody,       \* what the function f handed to once, once2, onceAndAfter does
    gBody,       \* what the function g handed to onceAndAfter does
    closures,    \* closures[w]: done, result, toCall of wrapper w and its call log
    called,      \* called[w]: the argument lists wrapper w was called with
    results,     \* results[w]: the outcomes of these calls
    built,       \* "pipeline" or "compose": what built the composed function
    given,       \* the functions handed to pipeline or compose
    fns,         \* the array fns the composed function closes over
    pipeArgs,    \* arguments of the current (or latest) call of the composed function
    pipeI,       \* the loop variable i of the running call, 0 when none runs
    pipeResult,  \* the variable result of the running call
    pipeLog,     \* the functions invoked by the current call, with their arguments
    pipeOut,     \* outcome of the latest call, NoOutcome while it runs
    pipeCalls,   \* calls of the composed function made so far
    curryBy,     \* "curryByBind" or "partialCurryingByBind"
    curryFn,     \* the function fn that is curried
    curried,     \* what the latest application returned: a function or fn's value
    supplied,    \* all the arguments supplied so far, in order
    groups,      \* how many arguments each application supplied
    fnLog,       \* the invocations of the curried fn
    curryErr,    \* TRUE when a value that is not a function was applied
    heap,        \* heap[r]: the object or array with reference r
    obj,         \* the structure handed to setIn, deleteIn or deepCopy
    made,        \* the call that was made on obj and its outcome
    nassigns,    \* property assignments made on the structure it returned
    home,        \* the fields country, city, address of the MyHome instance
    cursor,      \* what the chain expression has evaluated to so far
    chain,       \* the method calls of the chain made so far
    chainErr,    \* TRUE when a call of the chain threw a TypeError
    counts,      \* counts[c]: the variable count of the c-th counter made by newCounter()
    kcalls,      \* kcalls[c]: how many times the c-th counter has been called
    returned,    \* the counter called last and the value it returned
    raceAtomic,  \* TRUE when a call does its lookup, its call of fn and its store in one step
    raceCache,   \* the cache of the memoize wrapper shared by the callers
    racePc,      \* racePc[c]: where the call of caller c stands
    raceArg,     \* raceArg[c]: the argument x of that call
    raceVal,     \* raceVal[c]: what fn(x) gave, not stored yet
    fnRuns,      \* fnRuns[key]: invocations of fn for key
    overlapped,  \* keys that two calls missed before either had stored
    raceCalls,   \* calls started so far
    sumN,        \* the argument n of the sumAll3 call
    thunk,       \* the variable fn of trampoline: a thunk, or the final value
    trampPc,     \* "idle", "loop" (inside while) or "done" (sumAll3 has returned)
    deepest,     \* the greatest number of nested calls seen during the run
    bounces,     \* turns of the while loop made so far
    pipe2Args,   \* arguments of the latest call of the function pipeline2 built from fns
    pipe2Log,    \* the functions invoked by that call, with their arguments
    pipe2Out,    \* its outcome
    pipe2Calls,  \* calls of that function made so far
    store,       \* the state the next action is reduced from
    dispatched,  \* the action reduced last
    viaSwitch,   \* the outcome of doAction(store, action) for it
    viaTable,    \* the outcome of doAction2(store, action) for it
    ndispatch,   \* actions reduced so far
    unaryFn,     \* the fn handed to memoize
    unaryCache,  \* the cache of the wrapper memoize(fn)
    unaryLast,   \* the latest call of the wrapper and what came of it
    unaryStored, \* the first arguments whose fn(x) has been stored
    unaryCalls   \* calls of the wrapper made so far

memoVars == <<fn, kind, cache, invoked, origin, fnTotal, last, ncalls>>
fibVars == <<fibCaches, outerCache, stack, retval, fibCalls, bodyEvals,
             memoEvals, top, nruns>>
onceVars == <<fBody, gBody, closures, called, results>>
pipeVars == <<built, given, fns, pipeArgs, pipeI, pipeResult, pipeLog, pipeOut,
              pipeCalls>>
curryVars == <<curryBy, curryFn, curried, supplied, groups, fnLog, curryErr>>
treeVars == <<heap, obj, made, nassigns>>
chainVars == <<home, cursor, chain, chainErr>>
counterVars == <<counts, kcalls, returned>>
raceVars == <<raceAtomic, raceCache, racePc, raceArg, raceVal, fnRuns, overlapped, raceCalls>>
trampVars == <<sumN, thunk, trampPc, deepest, bounces>>
pipe2Vars == <<pipe2Args, pipe2Log, pipe2Out, pipe2Calls>>
reducerVars == <<store, dispatched, viaSwitch, viaTable, ndispatch>>
unaryVars == <<unaryFn, unaryCache, unaryLast, unaryStored, unaryCalls>>
laterVars == <<onceVars, pipeVars, curryVars, treeVars, chainVars, counterVars, raceVars, trampVars, pipe2Vars, reducerVars, unaryVars>>
vars == <<memoVars, fibVars, laterVars>>
\* what a step of each later specification leaves alone
notOnceVars == <<memoVars, fibVars, pipeVars, curryVars, treeVars, chainVars, counterVars, raceVars, trampVars, pipe2Vars, reducerVars, unaryVars>>
notPipeVars == <<memoVars, fibVars, onceVars, curryVars, treeVars, chainVars, counterVars, raceVars, trampVars, pipe2Vars, reducerVars, unaryVars>>
notCurryVars == <<memoVars, fibVars, onceVars, pipeVars, treeVars, chainVars, counterVars, raceVars, trampVars, pipe2Vars, reducerVars, unaryVars>>
notTreeVars == <<memoVars, fibVars, onceVars, pipeVars, curryVars, chainVars, counterVars, raceVars, trampVars, pipe2Vars, reducerVars, unaryVars>>
notChainVars == <<memoVars, fibVars, onceVars, pipeVars, curryVars, treeVars, counterVars, raceVars, trampVars, pipe2Vars, reducerVars, unaryVars>>
notCounterVars == <<memoVars, fibVars, onceVars, pipeVars, curryVars, treeVars, chainVars, raceVars, trampVars, pipe2Vars, reducerVars, unaryVars>>
notRaceVars == <<memoVars, fibVars, onceVars, pipeVars, curryVars, treeVars, chainVars, counterVars, trampVars, pipe2Vars, reducerVars, unaryVars>>
notTrampVars == <<memoVars, fibVars, onceVars, pipeVars, curryVars, treeVars, chainVars, counterVars, raceVars, pipe2Vars, reducerVars, unaryVars>>
notPipe2Vars == <<memoVars, fibVars, onceVars, pipeVars, curryVars, treeVars, chainVars, counterVars, raceVars, trampVars, reducerVars, unaryVars>>
notReducerVars == <<memoVars, fibVars, onceVars, pipeVars, curryVars, treeVars, chainVars, counterVars, raceVars, trampVars, pipe2Vars, unaryVars>>
notUnaryVars == <<memoVars, fibVars, onceVars, pipeVars, curryVars, treeVars, chainVars, counterVars, raceVars, trampVars, pipe2Vars, reducerVars>>

----------------------------------------------------------------------------
(* Bounds of the model. *)
MaxCalls == 2
MaxN == 10
MaxNaive == 4
MaxRuns == 2
MaxRebinds == 1
MaxOnceCalls == 4
MaxFns == 3
MaxPipeCalls == 2
MaxArity == 3
MaxApplications == 4
MaxSupplied == 4
MaxPath == 3
MaxAssigns == 1
MaxChain == 3
MaxCounters == 3
MaxCount == 4
MaxRaceCalls == 4
MaxSum == 10
MaxDispatch == 2
MaxUnaryCalls == 3

----------------------------------------------------------------------------
(* JavaScript values that reach a wrapper as arguments. *)
Num(n) == [t |-> "number", n |-> n]
Str(s) == [t |-> "string", s |-> s]
Bool(b) == [t |-> "boolean", b |-> b]
Null == [t |-> "null"]
Undef == [t |-> "undefined"]
NaN == [t |-> "NaN"]
\* an array / a plain object / a function, each with its reference identity
Arr(ref, elems) == [t |-> "array", ref |-> ref, elems |-> elems]
Obj(ref, keys, vals) == [t |-> "object", ref |-> ref, keys |-> keys, vals |-> vals]
Func(ref, src) == [t |-> "function", ref |-> ref, src |-> src]
\* a property that points back at the enclosing object ref (a circular structure)
BackRef(ref) == [t |-> "backref", ref |-> ref]
\* a member inherited from Object.prototype
Builtin(name) == [t |-> "builtin", name |-> name]

\* typeof v
TypeOf(v) ==
    CASE v.t \in {"number", "NaN"} -> <<"n", "u", "m", "b", "e", "r">>
      [] v.t = "string" -> <<"s", "t", "r", "i", "n", "g">>
      [] v.t = "boolean" -> <<"b", "o", "o", "l", "e", "a", "n">>
      [] v.t = "undefined" -> <<"u", "n", "d", "e", "f", "i", "n", "e", "d">>
      [] v.t \in {"function", "builtin"} -> <<"f", "u", "n", "c", "t", "i", "o", "n">>
      [] OTHER -> <<"o", "b", "j", "e", "c", "t">>

PRIMITIVES ==
    { <<"n", "u", "m", "b", "e", "r">>,
      <<"s", "t", "r", "i", "n", "g">>,
      <<"b", "o", "o", "l", "e", "a", "n">> }

Digit(d) == <<"0", "1", "2", "3", "4", "5", "6", "7", "8", "9">>[d + 1]

\* Number::toString of a non-negative integer: its decimal digits
RECURSIVE NumberToString(_)
NumberToString(n) ==
    IF n < 10 THEN <<Digit(n)>>
    ELSE NumberToString(n \div 10) \o <<Digit(n % 10)>>

\* ToPropertyKey(v): the ToString conversion `x in cache` and cache[x] apply to a key
RECURSIVE ToPropertyKey(_)
RECURSIVE JoinElems(_, _)
ToPropertyKey(v) ==
    CASE v.t = "number" -> NumberToString(v.n)
      [] v.t = "NaN" -> <<"N", "a", "N">>
      [] v.t = "string" -> v.s
      [] v.t = "boolean" ->
            IF v.b THEN <<"t", "r", "u", "e">> ELSE <<"f", "a", "l", "s", "e">>
      [] v.t = "null" -> <<"n", "u", "l", "l">>
      [] v.t = "undefined" -> <<"u", "n", "d", "e", "f", "i", "n", "e", "d">>
      [] v.t = "function" -> v.src
      [] v.t = "array" -> JoinElems(v.elems, 1)
      \* a plain object, also one reached again through a back reference
      [] OTHER -> <<"[", "o", "b", "j", "e", "c", "t", " ",
                    "O", "b", "j", "e", "c", "t", "]">>
\* Array.prototype.join(","): null and undefined elements give the empty text
JoinElems(elems, i) ==
    IF i > Len(elems) THEN <<>>
    ELSE (IF elems[i].t \in {"null", "undefined"} THEN <<>> ELSE ToPropertyKey(elems[i]))
         \o (IF i < Len(elems) THEN <<",">> ELSE <<>>)
         \o JoinElems(elems, i + 1)

\* QuoteJSONString: the text between double quotes, quote and backslash escaped
RECURSIVE Escape(_, _)
Escape(s, i) ==
    IF i > Len(s) THEN <<>>
    ELSE (IF s[i] \in {"\"", "\\"} THEN <<"\\", s[i]>> ELSE <<s[i]>>)
         \o Escape(s, i + 1)
Quote(s) == <<"\"">> \o Escape(s, 1) \o <<"\"">>

\* Results of serialisation: a text, the value undefined, or a thrown TypeError
Text(s) == [k |-> "text", s |-> s]
NoText == [k |-> "undefined"]
TypeError == [k |-> "throw"]

\* SerializeJSONProperty(v); seen holds the references of the enclosing
\* containers, and meeting one of them again is a circular structure
RECURSIVE SerializeJSON(_, _)
RECURSIVE SerializeArray(_, _, _)
RECURSIVE SerializeObject(_, _, _, _, _)
SerializeJSON(v, seen) ==
    CASE v.t = "null" -> Text(<<"n", "u", "l", "l">>)
      [] v.t = "NaN" -> Text(<<"n", "u", "l", "l">>)
      [] v.t = "number" -> Text(NumberToString(v.n))
      [] v.t = "string" -> Text(Quote(v.s))
      [] v.t = "boolean" ->
            Text(IF v.b THEN <<"t", "r", "u", "e">> ELSE <<"f", "a", "l", "s", "e">>)
      [] v.t \in {"undefined", "function", "builtin"} -> NoText
      [] v.t = "backref" -> IF v.ref \in seen THEN TypeError ELSE NoText
      [] v.t = "array" ->
            LET r == SerializeArray(v.elems, 1, seen \cup {v.ref})
            IN  IF r.k = "throw" THEN r ELSE Text(<<"[">> \o r.s \o <<"]">>)
      [] v.t = "object" ->
            LET r == SerializeObject(v.keys, v.vals, 1, seen \cup {v.ref}, TRUE)
            IN  IF r.k = "throw" THEN r ELSE Text(<<"{">> \o r.s \o <<"}">>)
\* SerializeJSONArray: an element without a text is written null
SerializeArray(elems, i, seen) ==
    IF i > Len(elems) THEN Text(<<>>)
    ELSE LET e == SerializeJSON(elems[i], seen)
             rest == SerializeArray(elems, i + 1, seen)
         IN  IF e.k = "throw" THEN e
             ELSE IF rest.k = "throw" THEN rest
             ELSE Text((IF e.k = "undefined" THEN <<"n", "u", "l", "l">> ELSE e.s)
                       \o (IF i < Len(elems) THEN <<",">> ELSE <<>>)
                       \o rest.s)
\* SerializeJSONObject: a property without a text is left out
SerializeObject(keys, vals, i, seen, first) ==
    IF i > Len(keys) THEN Text(<<>>)
    ELSE LET e == SerializeJSON(vals[i], seen)
             rest == SerializeObject(keys, vals, i + 1, seen,
                                     first /\ e.k = "undefined")
         IN  IF e.k = "throw" THEN e
             ELSE IF rest.k = "throw" THEN rest
             ELSE IF e.k = "undefined" THEN rest
             ELSE Text((IF first THEN <<>> ELSE <<",">>)
                       \o Quote(keys[i]) \o <<":">> \o e.s \o rest.s)

\* (mutant) the arguments are sorted before they are stringified
JSONstringify_sorted(args) ==
    SerializeJSON(
        Arr(0, IF Len(args) = 2 /\ args[1].t = "number" /\ args[2].t = "number"
                  /\ args[1].n > args[2].n
               THEN <<args[2], args[1]>> ELSE args),
        {})

\* JSON.stringify(args) of the argument list
JSONstringify(args) == SerializeJSON(Arr(0, args), {})

----------------------------------------------------------------------------
(* The cache object `let cache = {}` and the expression                    *)
(* `x in cache ? cache[x] : (cache[x] = fn(x))`.                           *)

\* {}: an object without own properties, whose prototype is Object.prototype
EmptyCache == <<>>

\* the property names every plain object inherits from Object.prototype
ObjectPrototypeKeys ==
    { <<"c", "o", "n", "s", "t", "r", "u", "c", "t", "o", "r">>,
      <<"t", "o", "S", "t", "r", "i", "n", "g">>,
      <<"v", "a", "l", "u", "e", "O", "f">>,
      <<"h", "a", "s", "O", "w", "n", "P", "r", "o", "p", "e", "r", "t", "y">>,
      <<"i", "s", "P", "r", "o", "t", "o", "t", "y", "p", "e", "O", "f">>,
      <<"p", "r", "o", "p", "e", "r", "t", "y", "I", "s",
        "E", "n", "u", "m", "e", "r", "a", "b", "l", "e">>,
      <<"t", "o", "L", "o", "c", "a", "l", "e", "S", "t", "r", "i", "n", "g">>,
      <<"_", "_", "p", "r", "o", "t", "o", "_", "_">>,
      <<"_", "_", "d", "e", "f", "i", "n", "e", "G", "e", "t", "t", "e", "r", "_", "_">>,
      <<"_", "_", "d", "e", "f", "i", "n", "e", "S", "e", "t", "t", "e", "r", "_", "_">>,
      <<"_", "_", "l", "o", "o", "k", "u", "p", "G", "e", "t", "t", "e", "r", "_", "_">>,
      <<"_", "_", "l", "o", "o", "k", "u", "p", "S", "e", "t", "t", "e", "r", "_", "_">> }

\* (mutant) the lookup never finds a key
In_never(c, key) == FALSE

\* key in cache: an own property, or one found on the prototype chain
In(c, key) == key \in DOMAIN c \/ key \in ObjectPrototypeKeys

\* cache[key] where key in cache holds
Get(c, key) == IF key \in DOMAIN c THEN c[key] ELSE Builtin(key)

\* (mutant) `let cache = {}` moved into the returned function: every store
\* starts from a new object
Put_only(c, key, val) == [k \in {key} |-> val]

\* cache[key] = val where key in cache does not hold: a new own property
Put(c, key, val) == [k \in DOMAIN c \cup {key} |-> IF k = key THEN val ELSE c[k]]

----------------------------------------------------------------------------
(* The wrapped function fn, drawn from a small set of behaviours. *)
Fns == {"typeof", "identity", "numberOnly", "boom"}

Return(v) == [k |-> "return", v |-> v]
Throw(name) == [k |-> "throw", v |-> [t |-> "error", name |-> name]]
NoOutcome == [k |-> "none"]

\* the i-th argument of a call, undefined when it was not supplied
Arg(args, i) == IF i <= Len(args) THEN args[i] ELSE Undef

\* fn.length, the declared number of parameters
Arity(f) == IF f = "boom" THEN 0 ELSE 1

\* fn(...args)
Apply(f, args) ==
    CASE f = "typeof" -> Return(Str(TypeOf(Arg(args, 1))))       \* x => typeof x
      [] f = "identity" -> Return(Arg(args, 1))                  \* x => x
      [] f = "numberOnly" ->                                     \* throws unless x is a number
            IF TypeOf(Arg(args, 1)) = <<"n", "u", "m", "b", "e", "r">>
            THEN Return(Arg(args, 1)) ELSE Throw("boom")
      [] f = "boom" -> Throw("boom")                             \* () => { throw ... }

\* (mutant) the thrown error is caught and stored like a result
StoreResult_always(c, key, r) == Put(c, key, r.v)

\* (mutant) the result is returned without being assigned to the cache
StoreResult_never(c, key, r) == c

\* the cache after `cache[key] = fn(...)`: nothing is assigned when fn threw
StoreResult(c, key, r) == IF r.k = "return" THEN Put(c, key, r.v) ELSE c

\* key in cache ? cache[key] : (cache[key] = fn(...passed))
Lookup(f, c, key, passed) ==
    IF In(c, key)
    THEN [out |-> Return(Get(c, key)), cache |-> c, keyed |-> TRUE, key |-> key,
          hit |-> TRUE, passed |-> <<>>]
    ELSE LET r == Apply(f, passed)
         IN  [out |-> r, cache |-> StoreResult(c, key, r), keyed |-> TRUE,
              key |-> key, hit |-> FALSE, passed |-> <<passed>>]

\* a call that never reaches the cache: fn itself, or a key that cannot be derived
Uncached(c, r, passed) ==
    [out |-> r, cache |-> c, keyed |-> FALSE, key |-> <<>>, hit |-> FALSE,
     passed |-> passed]

\* (mutant) memoize that never looks at its cache
memoize_uncached(f, c, args) ==
    Uncached(c, Apply(f, <<Arg(args, 1)>>), << <<Arg(args, 1)>> >>)

\* (mutant) memoize whose wrapper hands every argument on: (...args) => ... fn(...args)
memoize_spread(f, c, args) ==
    Lookup(f, c, ToPropertyKey(Arg(args, 1)), args)

\* const memoize = fn => { let cache = {}; return x => ... }
memoize(f, c, args) ==
    LET x == Arg(args, 1)
    IN  Lookup(f, c, ToPropertyKey(x), <<x>>)

\* (mutant) memoize2 without the test of fn.length
memoize2_always(f, c, args) == memoize(f, c, args)

\* memoize2: only functions of one declared parameter are cached
memoize2(f, c, args) ==
    IF Arity(f) = 1 THEN memoize(f, c, args)
    ELSE Uncached(c, Apply(f, args), <<args>>)

\* memoize3: a single primitive argument is its own key, anything else is stringified
memoize3(f, c, args) ==
    IF Len(args) = 1 /\ TypeOf(args[1]) \in PRIMITIVES
    THEN Lookup(f, c, ToPropertyKey(args[1]), args)
    ELSE LET strX == JSONstringify(args)
         IN  IF strX.k = "throw" THEN Uncached(c, Throw("TypeError"), <<>>)
             ELSE Lookup(f, c, strX.s, args)

\* memoize4: every argument list is stringified
memoize4(f, c, args) ==
    LET strX == JSONstringify(args)
    IN  IF strX.k = "throw" THEN Uncached(c, Throw("TypeError"), <<>>)
        ELSE Lookup(f, c, strX.s, args)

Kinds == {"memoize", "memoize2", "memoize3", "memoize4"}

\* one call of the wrapper built by memoizer m around f, its cache being c
Memoized(m, f, c, args) ==
    CASE m = "memoize" -> memoize(f, c, args)
      [] m = "memoize2" -> memoize2(f, c, args)
      [] m = "memoize3" -> memoize3(f, c, args)
      [] m = "memoize4" -> memoize4(f, c, args)

----------------------------------------------------------------------------
(* The memoizer specification: one fn, one memoizer, two wrappers built by *)
(* two separate calls of that memoizer on fn.                              *)

Wrappers == {1, 2}

\* [1, {a: 2}], constructed afresh with references r and r + 1
Nested(r) == Arr(r, <<Num(1), Obj(r + 1, << <<"a">> >>, <<Num(2)>>)>>)

\* the argument lists the wrappers are called with
ArgLists ==
    { <<Num(5)>>,
      <<Str(<<"5">>)>>,
      <<Num(1), Num(2)>>,
      <<Num(2), Num(1)>>,
      <<Str(<<"[", "1", ",", "2", "]">>)>>,
      <<Str(<<"t", "o", "S", "t", "r", "i", "n", "g">>)>>,
      <<Null>>,
      <<Undef>>,
      <<Nested(1)>>,
      <<Nested(3)>>,
      <<Func(5, <<"(", ")", "=", ">", "1">>)>>,
      <<Obj(6, << <<"s", "e", "l", "f">> >>, <<BackRef(6)>>)>> }

\* the wrappers of once, once2, onceAndAfter and onceAndAfter2 just built
OnceWrappers == {"once", "once2", "onceAndAfter", "onceAndAfter2"}

\* let done = false; let result; let toCall = f; and nothing invoked yet
NewClosure == [done |-> FALSE, result |-> Undef, toCall |-> "f", log |-> <<>>]

OnceIdle ==
    /\ fBody = "return"
    /\ gBody = "return"
    /\ closures = [w \in OnceWrappers |-> NewClosure]
    /\ called = [w \in OnceWrappers |-> <<>>]
    /\ results = [w \in OnceWrappers |-> <<>>]

\* pipeline(fn1) built and not called
PipeIdle ==
    /\ built = "pipeline"
    /\ given = <<"fn1">>
    /\ fns = <<"fn1">>
    /\ pipeArgs = <<>>
    /\ pipeI = 0
    /\ pipeResult = Undef
    /\ pipeLog = <<>>
    /\ pipeOut = NoOutcome
    /\ pipeCalls = 0

\* a function object: the function it runs, its length, the arguments bound so far
Function(target, length) == [target |-> target, length |-> length, bound |-> <<>>]

\* p => curryByBind(fn.bind(null, p)), (...pp) => partialCurryingByBind(fn.bind(null, ...pp))
Closure(by, f) == [t |-> "closure", by |-> by, fn |-> f]

\* curryByBind(make3) built and not applied
CurryIdle ==
    /\ curryBy = "curryByBind"
    /\ curryFn = Function("make3", 3)
    /\ curried = Closure("curryByBind", Function("make3", 3))
    /\ supplied = <<>>
    /\ groups = <<>>
    /\ fnLog = <<>>
    /\ curryErr = FALSE

\* a reference to the object or array heap[r]
Ref(r) == [t |-> "ref", r |-> r]

\* an object or array: its own enumerable properties in the order they were created
Container(t, keys, vals) == [t |-> t, keys |-> keys, vals |-> vals]

\* myObj1 = {a: 111, d: {g: {h: 666, i: null}, j: [{k: 100}, {k: 200}]}}
\* with references 1 (myObj1), 2 (d), 3 (g), 4 (j), 5 and 6 (the elements of j)
InitialHeap ==
    << Container("object", << <<"a">>, <<"d">> >>, <<Num(111), Ref(2)>>),
       Container("object", << <<"g">>, <<"j">> >>, <<Ref(3), Ref(4)>>),
       Container("object", << <<"h">>, <<"i">> >>, <<Num(666), Null>>),
       Container("array", << <<"0">>, <<"1">> >>, <<Ref(5), Ref(6)>>),
       Container("object", << <<"k">> >>, <<Num(100)>>),
       Container("object", << <<"k">> >>, <<Num(200)>>) >>

\* the structures the functions are called on: myObj1, myObj1.d, myObj1.d.j
Roots == {Ref(1), Ref(2), Ref(4)}

NotMade == [op |-> "none", path |-> <<>>, val |-> Undef, out |-> NoOutcome]

\* myObj1 built and nothing called on it
TreeIdle ==
    /\ heap = InitialHeap
    /\ obj = Ref(1)
    /\ made = NotMade
    /\ nassigns = 0

\* the values of the myHome example
Venezuela == Str(<<"V", "e", "n", "e", "z", "u", "e", "l", "a">>)
Caracas == Str(<<"C", "a", "r", "a", "c", "a", "s">>)
ElValle == Str(<<"E", "l", " ", "V", "a", "l", "l", "e">>)
Chile == Str(<<"C", "h", "i", "l", "e">>)
Santiago == Str(<<"S", "a", "n", "t", "i", "a", "g", "o">>)
Eleuterio == Str(<<"E", "l", "e", "u", "t", "e", "r", "i", "o">>)

\* new MyHome("Venezuela", "Caracas", "El Valle 123")
NewHome == [country |-> Venezuela, city |-> Caracas, address |-> ElValle]

\* the proxy chainify returned, and the MyHome instance it wraps
Proxy == [t |-> "proxy"]
Target == [t |-> "target"]

\* const myHome = chainify(new MyHome(...)), no method called yet
ChainIdle ==
    /\ home = NewHome
    /\ cursor = Proxy
    /\ chain = <<>>
    /\ chainErr = FALSE

NoReturn == [c |-> 0, v |-> 0]

\* no counter has been made
CounterIdle ==
    /\ counts = <<>>
    /\ kcalls = <<>>
    /\ returned = NoReturn

\* the callers of one memoize wrapper
Callers == {1, 2}

\* a wrapper just built, no call under way
RaceIdle ==
    /\ raceAtomic = TRUE
    /\ raceCache = EmptyCache
    /\ racePc = [c \in Callers |-> "idle"]
    /\ raceArg = [c \in Callers |-> Undef]
    /\ raceVal = [c \in Callers |-> NoOutcome]
    /\ fnRuns = <<>>
    /\ overlapped = {}
    /\ raceCalls = 0

\* sumAll3 has not been called
TrampIdle ==
    /\ sumN = 0
    /\ thunk = Undef
    /\ trampPc = "idle"
    /\ deepest = 0
    /\ bounces = 0

\* pipeline2(...fns) not called
Pipe2Idle ==
    /\ pipe2Args = <<>>
    /\ pipe2Log = <<>>
    /\ pipe2Out = NoOutcome
    /\ pipe2Calls = 0

\* the state before any action
InitialState == [t |-> "state", by |-> "initialState"]

NoAction == [type |-> <<>>, data |-> 0]

\* no action has been reduced
ReducerIdle ==
    /\ store = InitialState
    /\ dispatched = NoAction
    /\ viaSwitch = NoOutcome
    /\ viaTable = NoOutcome
    /\ ndispatch = 0

NoUnaryCall ==
    [args |-> <<>>, out |-> NoOutcome, hit |-> FALSE, key |-> <<>>, passed |-> <<>>,
     known |-> FALSE, made |-> FALSE]

\* memoize(fn) has not been called
UnaryIdle ==
    /\ unaryFn = "identity"
    /\ unaryCache = <<>>
    /\ unaryLast = NoUnaryCall
    /\ unaryStored = {}
    /\ unaryCalls = 0

LaterIdle == OnceIdle /\ PipeIdle /\ CurryIdle /\ TreeIdle /\ ChainIdle /\ CounterIdle /\ RaceIdle /\ TrampIdle /\ Pipe2Idle /\ ReducerIdle /\ UnaryIdle

NoCall ==
    [w |-> 0, args |-> <<>>, out |-> NoOutcome, keyed |-> FALSE, key |-> <<>>,
     hit |-> FALSE, passed |-> <<>>, before |-> EmptyCache]

\* per-argument counters, all zero
NoEvals == [k \in 0..MaxN |-> 0]

NoRun ==
    [f |-> "none", n |-> 0, done |-> TRUE, before |-> {}, cold |-> FALSE,
     warm |-> FALSE]

\* function fib is declared, testMemoFib = memoize(n => fib(n)) is built,
\* nothing has been called
FibIdle ==
    /\ fibCaches = <<>>
    /\ outerCache = EmptyCache
    /\ stack = <<>>
    /\ retval = 0
    /\ fibCalls = 0
    /\ bodyEvals = NoEvals
    /\ memoEvals = NoEvals
    /\ top = NoRun
    /\ nruns = 0

MemoInit ==
    /\ fn \in Fns
    /\ kind \in Kinds
    /\ cache = [w \in Wrappers |-> EmptyCache]
    /\ invoked = [w \in Wrappers |-> <<>>]
    /\ origin = [w \in Wrappers |-> <<>>]
    /\ fnTotal = 0
    /\ last = NoCall
    /\ ncalls = 0
    /\ FibIdle
    /\ LaterIdle

\* (mutant) `let cache = {}` moved out of memoize: one cache for all wrappers
CachesAfter_shared(w, c) == [v \in Wrappers |-> c]

\* the caches after wrapper w ran and left its own cache as c
CachesAfter(w, c) == [cache EXCEPT ![w] = c]

\* invoked[w] with one more call of fn counted for key
Counted(m, key) ==
    [k \in DOMAIN m \cup {key} |->
        IF k = key THEN (IF k \in DOMAIN m THEN m[k] ELSE 0) + 1 ELSE m[k]]

\* wrapper w is called with args
Call(w, args) ==
    /\ ncalls < MaxCalls
    /\ LET r == Memoized(kind, fn, cache[w], args)
       IN  /\ cache' = CachesAfter(w, r.cache)
           /\ invoked' = IF r.keyed /\ r.passed # <<>>
                         THEN [invoked EXCEPT ![w] = Counted(invoked[w], r.key)]
                         ELSE invoked
           /\ origin' = IF r.keyed /\ r.cache # cache[w]
                        THEN [origin EXCEPT ![w] = Put(origin[w], r.key, args)]
                        ELSE origin
           /\ fnTotal' = fnTotal + Len(r.passed)
           /\ last' = [w |-> w, args |-> args, out |-> r.out, keyed |-> r.keyed,
                       key |-> r.key, hit |-> r.hit, passed |-> r.passed,
                       before |-> cache[w]]
    /\ ncalls' = ncalls + 1
    /\ UNCHANGED <<fn, kind>>
    /\ UNCHANGED <<fibVars, laterVars>>

MemoNext == \E w \in Wrappers, args \in ArgLists : Call(w, args)

Spec == MemoInit /\ [][MemoNext]_vars

----------------------------------------------------------------------------
(* The recursive fib, testFib = n => fib(n), testMemoFib =                 *)
(* memoize(n => fib(n)) and the rebinding fib = memoize(fib), run on an    *)
(* explicit call stack. Only the frame on top of the stack takes steps.    *)

\* a call of the declared function fib(n)
BodyFrame(n) == [f |-> "fib", n |-> n, pc |-> "test", acc |-> 0, layer |-> 0]
\* a call of the arrow n => fib(n)
ArrowFrame(n) == [f |-> "arrow", n |-> n, pc |-> "call", acc |-> 0, layer |-> 0]
\* a call of the wrapper x => (x in cache ? ...): layer i >= 1 is the wrapper
\* made by the i-th fib = memoize(fib), layer 0 is testMemoFib
WrapperFrame(i, n) == [f |-> "memoized", n |-> n, pc |-> "lookup", acc |-> 0, layer |-> i]

\* (mutant) the recursive calls stay bound to the declared function
GlobalFib_declared(n) == BodyFrame(n)

\* what a call through the global name fib runs: the declared function until
\* fib is rebound, the latest wrapper afterwards
GlobalFib(n) ==
    IF fibCaches = <<>> THEN BodyFrame(n) ELSE WrapperFrame(Len(fibCaches), n)

\* the function a wrapper closed over as fn
WrappedBy(i, n) ==
    CASE i = 0 -> ArrowFrame(n)
      [] i = 1 -> BodyFrame(n)
      [] OTHER -> WrapperFrame(i - 1, n)

CacheOf(i) == IF i = 0 THEN outerCache ELSE fibCaches[i]

Top == stack[Len(stack)]
Pop == SubSeq(stack, 1, Len(stack) - 1)
\* the top frame keeps acc, moves to pc and calls callee
PushCall(pc, acc, callee) ==
    Append([stack EXCEPT ![Len(stack)].pc = pc, ![Len(stack)].acc = acc], callee)

FibKey(n) == ToPropertyKey(Num(n))

\* the top frame returns v to its caller
ReturnValue(v) ==
    /\ stack' = Pop
    /\ retval' = v
    /\ top' = IF Len(stack) = 1 THEN [top EXCEPT !.done = TRUE] ELSE top

\* fib = memoize(fib)
Rebind ==
    /\ stack = <<>>
    /\ Len(fibCaches) < MaxRebinds
    /\ fibCaches' = Append(fibCaches, EmptyCache)
    /\ UNCHANGED <<outerCache, stack, retval, fibCalls, bodyEvals, memoEvals, top,
                   nruns>>
    /\ UNCHANGED <<memoVars, laterVars>>

\* the largest argument of a top-level call: the naive recursion is exponential
ArgBound == IF fibCaches = <<>> THEN MaxNaive ELSE MaxN

\* a top-level call f(n), f being fib, testFib or testMemoFib
TopCall(f, n) ==
    /\ stack = <<>>
    /\ nruns < MaxRuns
    /\ n <= ArgBound
    /\ stack' = << CASE f = "fib" -> GlobalFib(n)
                     [] f = "testFib" -> ArrowFrame(n)
                     [] f = "testMemoFib" -> WrapperFrame(0, n) >>
    /\ fibCalls' = IF f = "fib" THEN 1 ELSE 0
    /\ bodyEvals' = NoEvals
    /\ top' = [f |-> f, n |-> n, done |-> FALSE, before |-> DOMAIN outerCache,
               cold |-> /\ fibCaches # <<>>
                        /\ \A i \in 1..Len(fibCaches) : fibCaches[i] = EmptyCache,
               warm |-> \E i \in 1..Len(fibCaches) : In(fibCaches[i], FibKey(n))]
    /\ nruns' = nruns + 1
    /\ UNCHANGED <<fibCaches, outerCache, retval, memoEvals>>
    /\ UNCHANGED <<memoVars, laterVars>>

\* x in cache ? cache[x] : ... , the hit
WrapperHit ==
    /\ stack # <<>> /\ Top.f = "memoized" /\ Top.pc = "lookup"
    /\ In(CacheOf(Top.layer), FibKey(Top.n))
    /\ ReturnValue(Get(CacheOf(Top.layer), FibKey(Top.n)).n)
    /\ UNCHANGED <<fibCaches, outerCache, fibCalls, bodyEvals, memoEvals, nruns>>
    /\ UNCHANGED <<memoVars, laterVars>>

\* ... : (cache[x] = fn(x)), the call of fn
WrapperMiss ==
    /\ stack # <<>> /\ Top.f = "memoized" /\ Top.pc = "lookup"
    /\ ~In(CacheOf(Top.layer), FibKey(Top.n))
    /\ stack' = PushCall("store", 0, WrappedBy(Top.layer, Top.n))
    /\ UNCHANGED <<fibCaches, outerCache, retval, fibCalls, bodyEvals, memoEvals,
                   top, nruns>>
    /\ UNCHANGED <<memoVars, laterVars>>

\* ... : (cache[x] = fn(x)), the assignment once fn has returned
WrapperStore ==
    /\ stack # <<>> /\ Top.f = "memoized" /\ Top.pc = "store"
    /\ IF Top.layer = 0
       THEN /\ outerCache' = StoreResult(outerCache, FibKey(Top.n), Return(Num(retval)))
            /\ UNCHANGED fibCaches
       ELSE /\ fibCaches' = [fibCaches EXCEPT ![Top.layer] =
                                StoreResult(@, FibKey(Top.n), Return(Num(retval)))]
            /\ UNCHANGED outerCache
    /\ ReturnValue(retval)
    /\ UNCHANGED <<fibCalls, bodyEvals, memoEvals, nruns>>
    /\ UNCHANGED <<memoVars, laterVars>>

\* one more evaluation of the body for k
CountEval(m, k) == [m EXCEPT ![k] = @ + 1]

\* if (n == 0) return 0; else if (n == 1) return 1;
BodyBase ==
    /\ stack # <<>> /\ Top.f = "fib" /\ Top.pc = "test"
    /\ Top.n \in {0, 1}
    /\ ReturnValue(Top.n)
    /\ bodyEvals' = CountEval(bodyEvals, Top.n)
    /\ memoEvals' = IF fibCaches = <<>> THEN memoEvals ELSE CountEval(memoEvals, Top.n)
    /\ UNCHANGED <<fibCaches, outerCache, fibCalls, nruns>>
    /\ UNCHANGED <<memoVars, laterVars>>

\* else return fib(n - 2) + ... : the first recursive call
BodyLeft ==
    /\ stack # <<>> /\ Top.f = "fib" /\ Top.pc = "test"
    /\ Top.n \notin {0, 1}
    /\ stack' = PushCall("left", 0, GlobalFib(Top.n - 2))
    /\ fibCalls' = fibCalls + 1
    /\ bodyEvals' = CountEval(bodyEvals, Top.n)
    /\ memoEvals' = IF fibCaches = <<>> THEN memoEvals ELSE CountEval(memoEvals, Top.n)
    /\ UNCHANGED <<fibCaches, outerCache, retval, top, nruns>>
    /\ UNCHANGED <<memoVars, laterVars>>

\* ... + fib(n - 1): the second recursive call
BodyRight ==
    /\ stack # <<>> /\ Top.f = "fib" /\ Top.pc = "left"
    /\ stack' = PushCall("right", retval, GlobalFib(Top.n - 1))
    /\ fibCalls' = fibCalls + 1
    /\ UNCHANGED <<fibCaches, outerCache, retval, bodyEvals, memoEvals, top, nruns>>
    /\ UNCHANGED <<memoVars, laterVars>>

\* the sum fib(n - 2) + fib(n - 1) is returned
BodySum ==
    /\ stack # <<>> /\ Top.f = "fib" /\ Top.pc = "right"
    /\ ReturnValue(Top.acc + retval)
    /\ UNCHANGED <<fibCaches, outerCache, fibCalls, bodyEvals, memoEvals, nruns>>
    /\ UNCHANGED <<memoVars, laterVars>>

\* n => fib(n): the call
ArrowCall ==
    /\ stack # <<>> /\ Top.f = "arrow" /\ Top.pc = "call"
    /\ stack' = PushCall("return", 0, GlobalFib(Top.n))
    /\ fibCalls' = fibCalls + 1
    /\ UNCHANGED <<fibCaches, outerCache, retval, bodyEvals, memoEvals, top, nruns>>
    /\ UNCHANGED <<memoVars, laterVars>>

\* n => fib(n): the value of fib(n) is returned
ArrowReturn ==
    /\ stack # <<>> /\ Top.f = "arrow" /\ Top.pc = "return"
    /\ ReturnValue(retval)
    /\ UNCHANGED <<fibCaches, outerCache, fibCalls, bodyEvals, memoEvals, nruns>>
    /\ UNCHANGED <<memoVars, laterVars>>

\* the memoizer variables while the fib computation is studied
MemoIdle ==
    /\ fn = "identity"
    /\ kind = "memoize"
    /\ cache = [w \in Wrappers |-> EmptyCache]
    /\ invoked = [w \in Wrappers |-> <<>>]
    /\ origin = [w \in Wrappers |-> <<>>]
    /\ fnTotal = 0
    /\ last = NoCall
    /\ ncalls = 0

FibInit == MemoIdle /\ FibIdle /\ LaterIdle

FibNext ==
    \/ Rebind
    \/ \E f \in {"fib", "testFib", "testMemoFib"}, n \in 0..MaxN : TopCall(f, n)
    \/ WrapperHit
    \/ WrapperMiss
    \/ WrapperStore
    \/ BodyBase
    \/ BodyLeft
    \/ BodyRight
    \/ BodySum
    \/ ArrowCall
    \/ ArrowReturn

FibSpec == FibInit /\ [][FibNext]_vars

----------------------------------------------------------------------------
(* once, once2, onceAndAfter and onceAndAfter2: one wrapper of each, built  *)
(* around the same f and g.  A closure is the record of its variables       *)
(* (done, result, toCall) and of the invocations of f and g it has made.    *)

\* what the body of a wrapped function does: it returns a value, it throws, or
\* the first time it runs it calls the wrapper that is calling it and then returns
OnceBodies == {"return", "throw", "reenter"}

BodyOf(name) == IF name = "f" THEN fBody ELSE gBody

\* the value a wrapped function returns for the arguments it received
Returned(name, args) == [t |-> "returned", by |-> name, args |-> args]

Invocation(name, args) == [f |-> name, args |-> args]

\* the wrapped function has not run before
FirstRun(st, name) == \A i \in 1..Len(st.log) : st.log[i].f # name

\* the argument lists the wrappers are called with
OnceArgs == {<<Num(1)>>, <<Num(2), Num(3)>>}

RECURSIVE Invoke(_, _, _, _)
RECURSIVE CallWrapper(_, _, _)

\* (mutant) once without `done = true`
once_forgets(st, args) ==
    IF ~st.done
    THEN LET r == Invoke("once", "f", st, args)
         IN  [st |-> r.st,
              out |-> IF r.out.k = "throw" THEN r.out ELSE Return(Undef)]
    ELSE [st |-> st, out |-> Return(Undef)]

\* (mutant) once that sets done only after fn has returned
once_retries(st, args) ==
    IF ~st.done
    THEN LET r == Invoke("once", "f", st, args)
         IN  IF r.out.k = "throw" THEN [st |-> r.st, out |-> r.out]
             ELSE [st |-> [r.st EXCEPT !.done = TRUE], out |-> Return(Undef)]
    ELSE [st |-> st, out |-> Return(Undef)]

\* (...args) => { if (!done) { done = true; fn(...args); } }
once(st, args) ==
    IF ~st.done
    THEN LET r == Invoke("once", "f", [st EXCEPT !.done = TRUE], args)
         IN  [st |-> r.st,
              out |-> IF r.out.k = "throw" THEN r.out ELSE Return(Undef)]
    ELSE [st |-> st, out |-> Return(Undef)]

\* (mutant) once2 that hands back what the latest call would give
once2_fresh(st, args) ==
    IF ~st.done
    THEN LET r == Invoke("once2", "f", [st EXCEPT !.done = TRUE], args)
         IN  IF r.out.k = "throw" THEN r
             ELSE [st |-> [r.st EXCEPT !.result = r.out.v], out |-> r.out]
    ELSE [st |-> st, out |-> Return(Returned("f", args))]

\* (...args) => { if (!done) { done = true; result = func(...args); } return result; }
once2(st, args) ==
    IF ~st.done
    THEN LET r == Invoke("once2", "f", [st EXCEPT !.done = TRUE], args)
         IN  IF r.out.k = "throw" THEN r
             ELSE [st |-> [r.st EXCEPT !.result = r.out.v], out |-> r.out]
    ELSE [st |-> st, out |-> Return(st.result)]

\* (...args) => { if (!done) { done = true; return f(...args); } else { return g(...args); } }
onceAndAfter(st, args) ==
    IF ~st.done
    THEN Invoke("onceAndAfter", "f", [st EXCEPT !.done = TRUE], args)
    ELSE Invoke("onceAndAfter", "g", st, args)

\* (...args) => { let result = toCall(...args); toCall = g; return result; }
onceAndAfter2(st, args) ==
    LET r == Invoke("onceAndAfter2", st.toCall, st, args)
    IN  IF r.out.k = "throw" THEN r
        ELSE [st |-> [r.st EXCEPT !.toCall = "g"], out |-> r.out]

\* the wrapper w, whose closure is st, called with args
CallWrapper(w, st, args) ==
    CASE w = "once" -> once(st, args)
      [] w = "once2" -> once2(st, args)
      [] w = "onceAndAfter" -> onceAndAfter(st, args)
      [] w = "onceAndAfter2" -> onceAndAfter2(st, args)

\* wrapper w invokes the wrapped function name with args
Invoke(w, name, st, args) ==
    LET entered == [st EXCEPT !.log = Append(@, Invocation(name, args))]
    IN  CASE BodyOf(name) = "return" ->
                [st |-> entered, out |-> Return(Returned(name, args))]
          [] BodyOf(name) = "throw" ->
                [st |-> entered, out |-> Throw(name)]
          [] BodyOf(name) = "reenter" ->
                IF FirstRun(st, name)
                THEN LET r == CallWrapper(w, entered, args)
                     IN  IF r.out.k = "throw" THEN r
                         ELSE [st |-> r.st, out |-> Return(Returned(name, args))]
                ELSE [st |-> entered, out |-> Return(Returned(name, args))]

\* the wrapper calls made so far
OnceTotal ==
    Len(called["once"]) + Len(called["once2"]) + Len(called["onceAndAfter"])
        + Len(called["onceAndAfter2"])

OnceInit ==
    /\ fBody \in OnceBodies
    /\ gBody \in OnceBodies
    /\ closures = [w \in OnceWrappers |-> NewClosure]
    /\ called = [w \in OnceWrappers |-> <<>>]
    /\ results = [w \in OnceWrappers |-> <<>>]
    /\ MemoIdle /\ FibIdle /\ PipeIdle /\ CurryIdle /\ TreeIdle /\ ChainIdle /\ CounterIdle /\ RaceIdle /\ TrampIdle /\ Pipe2Idle /\ ReducerIdle /\ UnaryIdle

\* a call of wrapper w from the top level
OnceCall(w, args) ==
    /\ OnceTotal < MaxOnceCalls
    /\ LET r == CallWrapper(w, closures[w], args)
       IN  /\ closures' = [closures EXCEPT ![w] = r.st]
           /\ results' = [results EXCEPT ![w] = Append(@, r.out)]
    /\ called' = [called EXCEPT ![w] = Append(@, args)]
    /\ UNCHANGED <<fBody, gBody>>
    /\ UNCHANGED notOnceVars

OnceNext == \E w \in OnceWrappers, args \in OnceArgs : OnceCall(w, args)

OnceSpec == OnceInit /\ [][OnceNext]_vars

----------------------------------------------------------------------------
(* pipeline and compose.  The call of the composed function is followed     *)
(* statement by statement: the first application, each turn of the loop,    *)
(* the return.                                                              *)

\* the functions that are composed: three mocks that return and one that throws
PipeFns == {"fn1", "fn2", "fn3", "boom"}

\* f(...args) for a composed function f
ApplyFn(f, args) ==
    IF f = "boom" THEN Throw("boom") ELSE Return(Returned(f, args))

\* the argument lists handed to the builders: none, one function, several
RECURSIVE FnLists(_)
FnLists(n) ==
    IF n = 0 THEN {<<>>}
    ELSE LET shorter == FnLists(n - 1)
         IN  shorter \cup {Append(l, f) : l \in {m \in shorter : Len(m) = n - 1},
                                          f \in PipeFns}

\* the argument lists of pipe(60) and pipe(24, 11, 63), and of a call without arguments
PipeArgLists == {<<>>, <<Num(60)>>, <<Num(24), Num(11), Num(63)>>}

\* fns.reverse()
Reverse(l) == [k \in 1..Len(l) |-> l[Len(l) + 1 - k]]

\* (...fns) => (...args) => ...: the composed function closes over the array fns
pipeline(l) == l

\* (mutant) compose without the reverse
compose_forward(l) == pipeline(l)

\* (...fns) => pipeline(...(fns.reverse()))
compose(l) == pipeline(Reverse(l))

\* (mutant) the loop hands the call's arguments on next to the result
LoopArgs_all(r) == <<r>> \o pipeArgs

\* fns[i](result): what a turn of the loop passes
LoopArgs(r) == <<r>>

PipeInit ==
    /\ built \in {"pipeline", "compose"}
    /\ given \in FnLists(MaxFns)
    /\ fns = (IF built = "pipeline" THEN pipeline(given) ELSE compose(given))
    /\ pipeArgs = <<>>
    /\ pipeI = 0
    /\ pipeResult = Undef
    /\ pipeLog = <<>>
    /\ pipeOut = NoOutcome
    /\ pipeCalls = 0
    /\ MemoIdle /\ FibIdle /\ OnceIdle /\ CurryIdle /\ TreeIdle /\ ChainIdle /\ CounterIdle /\ RaceIdle /\ TrampIdle /\ Pipe2Idle /\ ReducerIdle /\ UnaryIdle

\* the call ends by throwing e
PipeThrow(e) ==
    /\ pipeOut' = e
    /\ pipeI' = 0
    /\ pipeResult' = Undef

\* the composed function is called: let result = fns[0](...args)
PipeCall(args) ==
    /\ pipeI = 0
    /\ pipeCalls < MaxPipeCalls
    /\ pipeCalls' = pipeCalls + 1
    /\ pipeArgs' = args
    /\ IF fns = <<>>
       THEN /\ PipeThrow(TypeError)          \* fns[0] is undefined
            /\ pipeLog' = <<>>
       ELSE LET r == ApplyFn(fns[1], args)
            IN  /\ pipeLog' = <<Invocation(fns[1], args)>>
                /\ IF r.k = "throw" THEN PipeThrow(r)
                   ELSE /\ pipeOut' = NoOutcome
                        /\ pipeI' = 1
                        /\ pipeResult' = r.v
    /\ UNCHANGED <<built, given, fns>>
    /\ UNCHANGED notPipeVars

\* one turn of the loop: result = fns[i](result); i++
PipeLoop ==
    /\ pipeI >= 1 /\ pipeI < Len(fns)
    /\ LET r == ApplyFn(fns[pipeI + 1], LoopArgs(pipeResult))
       IN  /\ pipeLog' = Append(pipeLog, Invocation(fns[pipeI + 1], LoopArgs(pipeResult)))
           /\ IF r.k = "throw" THEN PipeThrow(r)
              ELSE /\ pipeOut' = NoOutcome
                   /\ pipeI' = pipeI + 1
                   /\ pipeResult' = r.v
    /\ UNCHANGED <<built, given, fns, pipeArgs, pipeCalls>>
    /\ UNCHANGED notPipeVars

\* the loop is over: return result
PipeReturn ==
    /\ pipeI >= 1 /\ pipeI >= Len(fns)
    /\ pipeOut' = Return(pipeResult)
    /\ pipeI' = 0
    /\ pipeResult' = Undef
    /\ UNCHANGED <<built, given, fns, pipeArgs, pipeLog, pipeCalls>>
    /\ UNCHANGED notPipeVars

\* (...args) => f(result(...args)): the function the reduce callback returns
Composed(result, f) == [t |-> "composed", result |-> result, f |-> f]

\* one of the functions of fns, as a value the callback receives
Given(f) == [t |-> "given", f |-> f]

\* fns.reduce(callback) for a non-empty fns, from the left: fns[0] is the
\* first accumulator
RECURSIVE ReduceLeft(_, _)
ReduceLeft(l, n) ==
    IF n = 1 THEN Given(l[1]) ELSE Composed(ReduceLeft(l, n - 1), l[n])

\* (mutant) pipeline2 written with reduceRight
pipeline2_right(l) == ReduceLeft(Reverse(l), Len(l))

\* (...fns) => fns.reduce((result, f) => (...args) => f(result(...args)))
pipeline2(l) == ReduceLeft(l, Len(l))

\* c(...args) for c one of the fns or a function made by the callback: the
\* invocations of the fns it makes, in order, and its outcome
RECURSIVE CallComposed(_, _)
CallComposed(c, args) ==
    IF c.t = "given"
    THEN [log |-> <<Invocation(c.f, args)>>, out |-> ApplyFn(c.f, args)]
    ELSE LET r == CallComposed(c.result, args)
         IN  IF r.out.k = "throw" THEN r
             ELSE [log |-> Append(r.log, Invocation(c.f, <<r.out.v>>)),
                   out |-> ApplyFn(c.f, <<r.out.v>>)]

\* pipeline2(...fns)(...args), for the same fns the composed function closes over
Pipe2Call(args) ==
    /\ fns # <<>>                      \* reduce of an empty array throws: nothing to call
    /\ pipe2Calls < MaxPipeCalls
    /\ pipe2Calls' = pipe2Calls + 1
    /\ pipe2Args' = args
    /\ LET r == CallComposed(pipeline2(fns), args)
       IN  /\ pipe2Log' = r.log
           /\ pipe2Out' = r.out
    /\ UNCHANGED notPipe2Vars

PipeNext ==
    \/ \E args \in PipeArgLists : PipeCall(args)
    \/ PipeLoop
    \/ PipeReturn
    \/ \E args \in PipeArgLists : Pipe2Call(args)

PipeSpec == PipeInit /\ [][PipeNext]_vars

----------------------------------------------------------------------------
(* curryByBind and partialCurryingByBind around a function of 0 to MaxArity *)
(* parameters that returns a value made of all the arguments it received.   *)

\* the values supplied as arguments
CurryValues == {Num(1), Num(2)}

\* the argument lists of one application: f(), f(a), f(a, b), f(a, b, c)
RECURSIVE Groups(_)
Groups(n) ==
    IF n = 0 THEN {<<>>}
    ELSE LET shorter == Groups(n - 1)
         IN  shorter \cup {Append(l, v) : l \in {m \in shorter : Len(m) = n - 1},
                                          v \in CurryValues}

\* the name of a function with n declared parameters (make3 has three)
Make(n) == <<"make0", "make1", "make2", "make3", "make4">>[n + 1]

\* (mutant) bind that puts the new arguments before the bound ones
Bind_prepend(f, args) ==
    [f EXCEPT !.bound = args \o @,
              !.length = IF @ > Len(args) THEN @ - Len(args) ELSE 0]

\* fn.bind(null, ...args): the bound function passes the bound arguments
\* first and has the length of fn less the arguments bound, never below 0
Bind(f, args) ==
    [f EXCEPT !.bound = @ \o args,
              !.length = IF @ > Len(args) THEN @ - Len(args) ELSE 0]

\* fn(): the function runs with its bound arguments
Invoked(f) ==
    [v |-> Returned(f.target, f.bound), log |-> <<Invocation(f.target, f.bound)>>]

\* fn.length === 0 ? fn() : p => curryByBind(fn.bind(null, p))
curryByBind(f) ==
    IF f.length = 0 THEN Invoked(f)
    ELSE [v |-> Closure("curryByBind", f), log |-> <<>>]

\* fn.length === 0 ? fn() : (...pp) => partialCurryingByBind(fn.bind(null, ...pp))
partialCurryingByBind(f) ==
    IF f.length = 0 THEN Invoked(f)
    ELSE [v |-> Closure("partialCurryingByBind", f), log |-> <<>>]

\* (mutant) both closures take one parameter
Taken_first(by, pp) == <<Arg(pp, 1)>>

\* the arguments a closure binds when it is applied to pp: p, or ...pp
Taken(by, pp) == IF by = "curryByBind" THEN <<Arg(pp, 1)>> ELSE pp

\* the closure c applied to the arguments pp
ApplyClosure(c, pp) ==
    IF c.by = "curryByBind"
    THEN curryByBind(Bind(c.fn, Taken(c.by, pp)))
    ELSE partialCurryingByBind(Bind(c.fn, Taken(c.by, pp)))

CurryInit ==
    /\ curryBy \in {"curryByBind", "partialCurryingByBind"}
    /\ \E n \in 0..MaxArity : curryFn = Function(Make(n), n)
    /\ LET r == IF curryBy = "curryByBind" THEN curryByBind(curryFn)
                ELSE partialCurryingByBind(curryFn)
       IN  curried = r.v /\ fnLog = r.log
    /\ supplied = <<>>
    /\ groups = <<>>
    /\ curryErr = FALSE
    /\ MemoIdle /\ FibIdle /\ OnceIdle /\ PipeIdle /\ TreeIdle /\ ChainIdle /\ CounterIdle /\ RaceIdle /\ TrampIdle /\ Pipe2Idle /\ ReducerIdle /\ UnaryIdle

\* what the latest application returned is a function
IsClosure(v) == "t" \in DOMAIN v /\ v.t = "closure"

\* the value obtained so far is applied to the arguments pp
CurryApply(pp) ==
    /\ ~curryErr
    /\ Len(groups) < MaxApplications
    /\ Len(supplied) + Len(pp) <= MaxSupplied
    /\ supplied' = supplied \o pp
    /\ groups' = Append(groups, Len(pp))
    /\ IF IsClosure(curried)
       THEN LET r == ApplyClosure(curried, pp)
            IN  /\ curried' = r.v
                /\ fnLog' = fnLog \o r.log
                /\ curryErr' = FALSE
       ELSE /\ curryErr' = TRUE            \* TypeError: not a function
            /\ UNCHANGED <<curried, fnLog>>
    /\ UNCHANGED <<curryBy, curryFn>>
    /\ UNCHANGED notCurryVars

CurryNext == \E pp \in Groups(MaxArity) : CurryApply(pp)

CurrySpec == CurryInit /\ [][CurryNext]_vars

----------------------------------------------------------------------------
(* setIn, deleteIn and deepCopy on structures of objects and arrays.  The   *)
(* structures live in a heap, so that two values are the same object        *)
(* exactly when they are the same reference.                                *)

IsRef(v) == v.t = "ref"

\* Number.isInteger(v)
IsInteger(v) == v.t = "number"

\* the position of the own property key in the container c, 0 when it has none
KeyPos(c, key) ==
    IF \E p \in 1..Len(c.keys) : c.keys[p] = key
    THEN CHOOSE p \in 1..Len(c.keys) : c.keys[p] = key
    ELSE 0

\* key is an array index: the decimal digits of a non-negative integer
IsIndex(key) ==
    /\ key # <<>>
    /\ \A p \in 1..Len(key) : \E d \in 0..9 : key[p] = Digit(d)
    /\ Len(key) > 1 => key[1] # "0"

RECURSIVE IndexOf(_)
IndexOf(key) ==
    IF key = <<>> THEN 0
    ELSE 10 * IndexOf(SubSeq(key, 1, Len(key) - 1))
            + (CHOOSE d \in 0..9 : key[Len(key)] = Digit(d))

\* the length of an array: one more than its greatest index
ArrayLength(c) ==
    LET indices == {IndexOf(c.keys[p]) : p \in {q \in 1..Len(c.keys) : IsIndex(c.keys[q])}}
    IN  IF indices = {} THEN 0
        ELSE 1 + (CHOOSE m \in indices : \A n \in indices : n <= m)

LengthKey == <<"l", "e", "n", "g", "t", "h">>

\* o[key] for a value o that is neither null nor undefined
GetProp(h, o, key) ==
    IF ~IsRef(o) THEN Undef
    ELSE LET c == h[o.r]
         IN  IF KeyPos(c, key) # 0 THEN c.vals[KeyPos(c, key)]
             ELSE IF c.t = "array" /\ key = LengthKey THEN Num(ArrayLength(c))
             ELSE Undef

\* the properties of an array that remain when its length is set to n
Truncated(c, n) ==
    LET kept == SelectSeq([p \in 1..Len(c.keys) |-> p],
                          LAMBDA p : ~IsIndex(c.keys[p]) \/ IndexOf(c.keys[p]) < n)
    IN  Container(c.t, [p \in 1..Len(kept) |-> c.keys[kept[p]]],
                       [p \in 1..Len(kept) |-> c.vals[kept[p]]])

\* heap[r][key] = v
SetProp(h, r, key, v) ==
    LET c == h[r]
    IN  IF c.t = "array" /\ key = LengthKey
        THEN [h EXCEPT ![r] = Truncated(c, v.n)]
        ELSE IF KeyPos(c, key) # 0
        THEN [h EXCEPT ![r].vals[KeyPos(c, key)] = v]
        ELSE [h EXCEPT ![r] = Container(c.t, Append(c.keys, key), Append(c.vals, v))]

\* Object.keys(o) for a value o that is neither null nor undefined
ObjectKeys(h, o) == IF IsRef(o) THEN h[o.r].keys ELSE <<>>

\* (mutant) the forEach of setIn left out
CopyOrNull_skip(h, o, r, keys, first) == h

\* Object.keys(obj).forEach(k => { newObj[k] = k !== arr[0] ? obj[k] : null; })
RECURSIVE CopyOrNull(_, _, _, _, _)
CopyOrNull(h, o, r, keys, first) ==
    IF keys = <<>> THEN h
    ELSE LET k == Head(keys)
             v == IF Str(k) # first THEN GetProp(h, o, k) ELSE Null
         IN  CopyOrNull(SetProp(h, r, k, v), o, r, Tail(keys), first)

\* setIn(arr, val, obj) run in the heap h: the heap it leaves and its outcome
RECURSIVE setIn(_, _, _, _)
setIn(h, arr, v, o) ==
    LET r == Len(h) + 1
        h1 == Append(h, Container(IF IsInteger(arr[1]) THEN "array" ELSE "object",
                                  <<>>, <<>>))
        key == ToPropertyKey(arr[1])
    IN  IF o \in {Null, Undef} THEN [h |-> h1, out |-> TypeError]
        ELSE LET h2 == CopyOrNull(h1, o, r, ObjectKeys(h1, o), arr[1])
             IN  IF Len(arr) > 1
                 THEN LET sub == setIn(h2, Tail(arr), v, GetProp(h2, o, key))
                      IN  IF sub.out.k = "throw" THEN sub
                          ELSE [h |-> SetProp(sub.h, r, key, sub.out.v),
                                out |-> Return(Ref(r))]
                 ELSE [h |-> SetProp(h2, r, key, v), out |-> Return(Ref(r))]

\* Object.keys(obj).forEach(k => { if (k !== arr[0]) { newObj[k] = obj[k]; } })
RECURSIVE CopyUnless(_, _, _, _, _)
CopyUnless(h, o, r, keys, first) ==
    IF keys = <<>> THEN h
    ELSE LET k == Head(keys)
         IN  CopyUnless(IF Str(k) # first THEN SetProp(h, r, k, GetProp(h, o, k)) ELSE h,
                        o, r, Tail(keys), first)

\* deleteIn(arr, obj) run in the heap h: the heap it leaves and its outcome
RECURSIVE deleteIn(_, _, _)
deleteIn(h, arr, o) ==
    LET r == Len(h) + 1
        h1 == Append(h, Container(IF IsInteger(arr[1]) THEN "array" ELSE "object",
                                  <<>>, <<>>))
        key == ToPropertyKey(arr[1])
    IN  IF o \in {Null, Undef} THEN [h |-> h1, out |-> TypeError]
        ELSE LET h2 == CopyUnless(h1, o, r, ObjectKeys(h1, o), arr[1])
             IN  IF Len(arr) > 1
                 THEN LET sub == deleteIn(h2, Tail(arr), GetProp(h2, o, key))
                      IN  IF sub.out.k = "throw" THEN sub
                          ELSE [h |-> SetProp(sub.h, r, key, sub.out.v),
                                out |-> Return(Ref(r))]
                 ELSE [h |-> h2, out |-> Return(Ref(r))]

\* Object.getOwnPropertyNames(c): for an array the indices and "length"
OwnPropertyNames(c) == c.keys \o (IF c.t = "array" THEN <<LengthKey>> ELSE <<>>)

RECURSIVE deepCopy(_, _)
RECURSIVE CopyProps(_, _, _, _)
RECURSIVE CopyProps_shallow(_, _, _, _)

\* (mutant) forEach(prop => (aux[prop] = obj[prop]))
CopyProps_shallow(h, from, to, names) ==
    IF names = <<>> THEN h
    ELSE CopyProps_shallow(SetProp(h, to, Head(names), GetProp(h, Ref(from), Head(names))),
                           from, to, Tail(names))

\* Object.getOwnPropertyNames(obj).forEach(prop => (aux[prop] = deepCopy(obj[prop])))
CopyProps(h, from, to, names) ==
    IF names = <<>> THEN h
    ELSE LET c == deepCopy(h, GetProp(h, Ref(from), Head(names)))
         IN  CopyProps(SetProp(c.h, to, Head(names), c.v), from, to, Tail(names))

\* deepCopy(obj) run in the heap h: the heap it leaves and the value it returns
deepCopy(h, o) ==
    IF IsRef(o)                                 \* obj && typeof obj === "object"
    THEN LET r == Len(h) + 1
             h1 == Append(h, Container(h[o.r].t, <<>>, <<>>))   \* new obj.constructor()
         IN  [h |-> CopyProps(h1, o.r, r, OwnPropertyNames(h1[o.r])), v |-> Ref(r)]
    ELSE [h |-> h, v |-> o]

\* o[arr[0]][arr[1]]...: the value at the end of the path arr, undefined
\* when the path leaves the structure
RECURSIVE Walk(_, _, _)
Walk(h, o, arr) ==
    IF arr = <<>> THEN o
    ELSE IF ~IsRef(o) THEN Undef
    ELSE Walk(h, GetProp(h, o, ToPropertyKey(arr[1])), Tail(arr))

\* the elements of the paths: property names and array indices
PathElems ==
    {Str(<<"a">>), Str(<<"d">>), Str(<<"g">>), Str(<<"j">>), Str(<<"k">>),
     Num(0), Num(1)}

RECURSIVE Paths(_)
Paths(n) ==
    IF n = 1 THEN {<<e>> : e \in PathElems}
    ELSE LET shorter == Paths(n - 1)
         IN  shorter \cup {Append(l, e) : l \in {m \in shorter : Len(m) = n - 1},
                                          e \in PathElems}

\* the values that are set
NewValues == {Num(88888), Null}

TreeInit ==
    /\ heap = InitialHeap
    /\ obj \in Roots
    /\ made = NotMade
    /\ nassigns = 0
    /\ MemoIdle /\ FibIdle /\ OnceIdle /\ PipeIdle /\ CurryIdle /\ ChainIdle /\ CounterIdle /\ RaceIdle /\ TrampIdle /\ Pipe2Idle /\ ReducerIdle /\ UnaryIdle

\* setIn(arr, val, obj)
SetIn(arr, v) ==
    /\ made.op = "none"
    /\ LET r == setIn(heap, arr, v, obj)
       IN  /\ heap' = r.h
           /\ made' = [op |-> "setIn", path |-> arr, val |-> v, out |-> r.out]
    /\ UNCHANGED <<obj, nassigns>>
    /\ UNCHANGED notTreeVars

\* deleteIn(arr, obj)
DeleteIn(arr) ==
    /\ made.op = "none"
    /\ LET r == deleteIn(heap, arr, obj)
       IN  /\ heap' = r.h
           /\ made' = [op |-> "deleteIn", path |-> arr, val |-> Undef, out |-> r.out]
    /\ UNCHANGED <<obj, nassigns>>
    /\ UNCHANGED notTreeVars

\* deepCopy(obj)
DeepCopy ==
    /\ made.op = "none"
    /\ LET r == deepCopy(heap, obj)
       IN  /\ heap' = r.h
           /\ made' = [op |-> "deepCopy", path |-> <<>>, val |-> Undef,
                       out |-> Return(r.v)]
    /\ UNCHANGED <<obj, nassigns>>
    /\ UNCHANGED notTreeVars

\* newObject.o.f.a = 9999: an assignment to a property of the structure that
\* was returned, or of an object or array inside it
Assign(arr, v) ==
    /\ made.op = "deepCopy"
    /\ nassigns < MaxAssigns
    /\ LET target == Walk(heap, made.out.v, SubSeq(arr, 1, Len(arr) - 1))
       IN  /\ IsRef(target)
           /\ heap' = SetProp(heap, target.r, ToPropertyKey(arr[Len(arr)]), v)
    /\ nassigns' = nassigns + 1
    /\ UNCHANGED <<obj, made>>
    /\ UNCHANGED notTreeVars

TreeNext ==
    \/ \E arr \in Paths(MaxPath), v \in NewValues : SetIn(arr, v)
    \/ \E arr \in Paths(MaxPath) : DeleteIn(arr)
    \/ DeepCopy
    \/ \E arr \in Paths(MaxPath), v \in NewValues : Assign(arr, v)

TreeSpec == TreeInit /\ [][TreeNext]_vars

----------------------------------------------------------------------------
(* chainify: a chain of method calls that starts at the proxy              *)
(* myHome = chainify(new MyHome(...)).                                      *)

Setters == {"setCountry", "setCity", "setAddress"}
Getters == {"getCountry", "getCity", "getAddress"}

\* the field a method of MyHome reads or writes
FieldOf(method) ==
    CASE method \in {"setCountry", "getCountry"} -> "country"
      [] method \in {"setCity", "getCity"} -> "city"
      [] method \in {"setAddress", "getAddress"} -> "address"

\* the arguments of the setter calls
ChainValues == {Chile, Santiago, Eleuterio}

\* target[method](arg) with this = target: the fields it leaves and the value it returns
CallMethod(h, method, arg) ==
    IF method \in Setters
    THEN [home |-> [h EXCEPT ![FieldOf(method)] = arg], v |-> Undef]
    ELSE [home |-> h, v |-> h[FieldOf(method)]]

\* return result === undefined ? target : result
Wrapped(result) == IF result = Undef THEN Target ELSE result

ChainInit ==
    /\ home = NewHome
    /\ cursor = Proxy
    /\ chain = <<>>
    /\ chainErr = FALSE
    /\ MemoIdle /\ FibIdle /\ OnceIdle /\ PipeIdle /\ CurryIdle /\ TreeIdle /\ CounterIdle /\ RaceIdle /\ TrampIdle /\ Pipe2Idle /\ ReducerIdle /\ UnaryIdle

\* the next call of the chain: <cursor>.method(arg)
ChainCall(method, arg) ==
    /\ ~chainErr
    /\ Len(chain) < MaxChain
    /\ chain' = Append(chain, [method |-> method, arg |-> arg])
    /\ IF cursor = Proxy
       THEN LET r == CallMethod(home, method, arg)       \* the get trap's wrapper
            IN  /\ home' = r.home
                /\ cursor' = Wrapped(r.v)
                /\ chainErr' = FALSE
       ELSE IF cursor = Target
       THEN LET r == CallMethod(home, method, arg)       \* the method itself
            IN  /\ home' = r.home
                /\ cursor' = r.v
                /\ chainErr' = FALSE
       ELSE /\ chainErr' = TRUE         \* undefined or a string has no such method
            /\ UNCHANGED <<home, cursor>>
    /\ UNCHANGED notChainVars

ChainNext ==
    \/ \E method \in Setters, arg \in ChainValues : ChainCall(method, arg)
    \/ \E method \in Getters : ChainCall(method, Undef)

ChainSpec == ChainInit /\ [][ChainNext]_vars

----------------------------------------------------------------------------
(* newCounter: every call makes a closure over its own variable count.      *)

CounterInit ==
    /\ counts = <<>>
    /\ kcalls = <<>>
    /\ returned = NoReturn
    /\ MemoIdle /\ FibIdle /\ OnceIdle /\ PipeIdle /\ CurryIdle /\ TreeIdle /\ ChainIdle /\ RaceIdle /\ TrampIdle /\ Pipe2Idle /\ ReducerIdle /\ UnaryIdle

\* const nc = newCounter(): let count = 0
NewCounter ==
    /\ Len(counts) < MaxCounters
    /\ counts' = Append(counts, 0)
    /\ kcalls' = Append(kcalls, 0)
    /\ UNCHANGED returned
    /\ UNCHANGED notCounterVars

\* (mutant) let count = 0 moved out of newCounter: one count for all counters
Incremented_shared(c) == [d \in 1..Len(counts) |-> counts[c] + 1]

\* count++ in the closure of counter c
Incremented(c) == [counts EXCEPT ![c] = @ + 1]

\* nc(): count++; return count
CallCounter(c) ==
    /\ kcalls[c] < MaxCount
    /\ counts' = Incremented(c)
    /\ returned' = [c |-> c, v |-> counts'[c]]
    /\ kcalls' = [kcalls EXCEPT ![c] = @ + 1]
    /\ UNCHANGED notCounterVars

CounterNext ==
    \/ NewCounter
    \/ \E c \in 1..Len(counts) : CallCounter(c)

CounterSpec == CounterInit /\ [][CounterNext]_vars

----------------------------------------------------------------------------
(* Two callers of one wrapper memoized = memoize(fn).  The body             *)
(* x in cache ? cache[x] : (cache[x] = fn(x)) is either one step, or three: *)
(* the lookup, the call of fn, the store.                                   *)

\* the arguments of the calls
RaceArgs == {Num(5), Num(7)}

\* the function that is memoized
RaceFn == "identity"

RaceInit ==
    /\ raceAtomic \in BOOLEAN
    /\ raceCache = EmptyCache
    /\ racePc = [c \in Callers |-> "idle"]
    /\ raceArg = [c \in Callers |-> Undef]
    /\ raceVal = [c \in Callers |-> NoOutcome]
    /\ fnRuns = <<>>
    /\ overlapped = {}
    /\ raceCalls = 0
    /\ MemoIdle /\ FibIdle /\ OnceIdle /\ PipeIdle /\ CurryIdle /\ TreeIdle /\ ChainIdle /\ CounterIdle /\ TrampIdle /\ Pipe2Idle /\ ReducerIdle /\ UnaryIdle

\* the whole of memoized(x) in one step
RaceAtomicCall(c, x) ==
    /\ raceAtomic
    /\ raceCalls < MaxRaceCalls
    /\ raceCalls' = raceCalls + 1
    /\ LET r == memoize(RaceFn, raceCache, <<x>>)
       IN  /\ raceCache' = r.cache
           /\ fnRuns' = IF r.passed # <<>> THEN Counted(fnRuns, ToPropertyKey(x))
                        ELSE fnRuns
    /\ UNCHANGED <<raceAtomic, racePc, raceArg, raceVal, overlapped>>
    /\ UNCHANGED notRaceVars

\* the calls of other callers that have missed key and not stored yet
Pending(c, key) ==
    {d \in Callers \ {c} :
        racePc[d] \in {"invoke", "store"} /\ ToPropertyKey(raceArg[d]) = key}

\* caller c calls memoized(x): x in cache ?
RaceLookup(c, x) ==
    /\ ~raceAtomic
    /\ racePc[c] = "idle"
    /\ raceCalls < MaxRaceCalls
    /\ raceCalls' = raceCalls + 1
    /\ IF In(raceCache, ToPropertyKey(x))
       THEN UNCHANGED <<racePc, raceArg, overlapped>>        \* cache[x] is returned
       ELSE /\ racePc' = [racePc EXCEPT ![c] = "invoke"]
            /\ raceArg' = [raceArg EXCEPT ![c] = x]
            /\ overlapped' = IF Pending(c, ToPropertyKey(x)) # {}
                             THEN overlapped \cup {ToPropertyKey(x)}
                             ELSE overlapped
    /\ UNCHANGED <<raceAtomic, raceCache, raceVal, fnRuns>>
    /\ UNCHANGED notRaceVars

\* fn(x)
RaceInvoke(c) ==
    /\ racePc[c] = "invoke"
    /\ raceVal' = [raceVal EXCEPT ![c] = Apply(RaceFn, <<raceArg[c]>>)]
    /\ fnRuns' = Counted(fnRuns, ToPropertyKey(raceArg[c]))
    /\ racePc' = [racePc EXCEPT ![c] = "store"]
    /\ UNCHANGED <<raceAtomic, raceCache, raceArg, overlapped, raceCalls>>
    /\ UNCHANGED notRaceVars

\* cache[x] = ..., and the call returns
RaceStore(c) ==
    /\ racePc[c] = "store"
    /\ raceCache' = StoreResult(raceCache, ToPropertyKey(raceArg[c]), raceVal[c])
    /\ racePc' = [racePc EXCEPT ![c] = "idle"]
    /\ raceArg' = [raceArg EXCEPT ![c] = Undef]
    /\ raceVal' = [raceVal EXCEPT ![c] = NoOutcome]
    /\ UNCHANGED <<raceAtomic, fnRuns, overlapped, raceCalls>>
    /\ UNCHANGED notRaceVars

RaceNext ==
    \/ \E c \in Callers, x \in RaceArgs : RaceAtomicCall(c, x)
    \/ \E c \in Callers, x \in RaceArgs : RaceLookup(c, x)
    \/ \E c \in Callers : RaceInvoke(c)
    \/ \E c \in Callers : RaceStore(c)

RaceSpec == RaceInit /\ [][RaceNext]_vars

----------------------------------------------------------------------------
(* trampoline and sumAll3.  Functions are records: the continuations        *)
(* x => x and v => () => cont(v + n), the thunks () => cont(v) and          *)
(* () => sumAllT(n - 1, ...).  A call gives a value and the depth of the    *)
(* calls nested in it, itself included.                                     *)

\* x => x
Identity == [t |-> "function", f |-> "identity"]
\* v => () => cont(v + n)
Continue(n, cont) == [t |-> "function", f |-> "continue", n |-> n, cont |-> cont]
\* () => cont(v)
ThunkCont(cont, v) == [t |-> "function", f |-> "thunkCont", cont |-> cont, v |-> v]
\* () => sumAllT(n - 1, v => () => cont(v + n))
ThunkSum(n, cont) == [t |-> "function", f |-> "thunkSum", n |-> n, cont |-> cont]

\* typeof v === 'function'
IsFunction(v) == v.t = "function"

\* sumAllT(n, cont): it builds a thunk and calls nothing
sumAllT(n, cont) ==
    [v |-> IF n = 0 THEN ThunkCont(cont, 0) ELSE ThunkSum(n, cont), depth |-> 1]

RECURSIVE ApplyCont_direct(_, _)
\* (mutant) the continuation v => cont(v + n), which calls cont at once
ApplyCont_direct(cont, v) ==
    IF cont.f = "identity" THEN [v |-> Num(v), depth |-> 1]
    ELSE LET r == ApplyCont_direct(cont.cont, v + cont.n)
         IN  [v |-> r.v, depth |-> 1 + r.depth]

\* cont(v): x => x returns v, v => () => cont(v + n) returns a thunk
ApplyCont(cont, v) ==
    IF cont.f = "identity" THEN [v |-> Num(v), depth |-> 1]
    ELSE [v |-> ThunkCont(cont.cont, v + cont.n), depth |-> 1]

\* fn(): the thunk calls cont, or sumAllT
CallThunk(th) ==
    LET r == IF th.f = "thunkCont" THEN ApplyCont(th.cont, th.v)
             ELSE sumAllT(th.n - 1, Continue(th.n, th.cont))
    IN  [v |-> r.v, depth |-> 1 + r.depth]

Max(a, b) == IF a >= b THEN a ELSE b

TrampInit ==
    /\ sumN = 0
    /\ thunk = Undef
    /\ trampPc = "idle"
    /\ deepest = 0
    /\ bounces = 0
    /\ MemoIdle /\ FibIdle /\ OnceIdle /\ PipeIdle /\ CurryIdle /\ TreeIdle /\ ChainIdle /\ CounterIdle /\ RaceIdle /\ Pipe2Idle /\ ReducerIdle /\ UnaryIdle

\* sumAll3(n) is called: sumAllT(n, x => x) is evaluated and handed to trampoline
SumAll3(n) ==
    /\ trampPc = "idle"
    /\ sumN' = n
    /\ LET r == sumAllT(n, Identity)
       IN  /\ thunk' = r.v
           /\ deepest' = 1 + r.depth             \* sumAll3 > sumAllT
    /\ trampPc' = "loop"
    /\ bounces' = 0
    /\ UNCHANGED notTrampVars

\* while (typeof fn === 'function') { fn = fn(); }
Bounce ==
    /\ trampPc = "loop"
    /\ IsFunction(thunk)
    /\ LET r == CallThunk(thunk)
       IN  /\ thunk' = r.v
           /\ deepest' = Max(deepest, 2 + r.depth)      \* sumAll3 > trampoline > fn()
    /\ bounces' = bounces + 1
    /\ UNCHANGED <<sumN, trampPc>>
    /\ UNCHANGED notTrampVars

\* return fn
TrampReturn ==
    /\ trampPc = "loop"
    /\ ~IsFunction(thunk)
    /\ trampPc' = "done"
    /\ UNCHANGED <<sumN, thunk, deepest, bounces>>
    /\ UNCHANGED notTrampVars

TrampNext ==
    \/ \E n \in 0..MaxSum : SumAll3(n)
    \/ Bounce
    \/ TrampReturn

TrampSpec == TrampInit /\ [][TrampNext]_vars

\* a call that has started keeps running: the loop and the return are not
\* held up for ever
TrampFairSpec == TrampSpec /\ WF_vars(Bounce) /\ WF_vars(TrampReturn)

----------------------------------------------------------------------------
(* The reducers doAction (a switch) and doAction2 (a dispatch table).  The  *)
(* bodies of the three handlers are left out in the source; a handler is    *)
(* taken to return a new state that depends on the state and the action.    *)

CREATE == <<"C", "R", "E", "A", "T", "E">>
DELETE == <<"D", "E", "L", "E", "T", "E">>
UPDATE == <<"U", "P", "D", "A", "T", "E">>
RESET == <<"R", "E", "S", "E", "T">>

\* the own properties of dispatchTable
DispatchKeys == {CREATE, DELETE, UPDATE}

\* the strings met as action.type
ActionTypes == DispatchKeys \cup {RESET} \cup ObjectPrototypeKeys

Actions == [type : ActionTypes, data : {1, 2}]

\* "update state, generating newState": the state a handler returns
NewState(s, action) ==
    [t |-> "state", by |-> action.type, data |-> action.data, from |-> s]

\* function doAction(state, action) { switch (action.type) { ... default: return state; } }
doAction(s, action) ==
    CASE action.type = CREATE -> Return(NewState(s, action))
      [] action.type = DELETE -> Return(NewState(s, action))
      [] action.type = UPDATE -> Return(NewState(s, action))
      [] OTHER -> Return(s)

ObjectObject ==
    Str(<<"[", "o", "b", "j", "e", "c", "t", " ", "O", "b", "j", "e", "c", "t", "]">>)

\* Object.prototype[name](state, action) with this = dispatchTable
CallBuiltin(name, s, action) ==
    CASE name = <<"c", "o", "n", "s", "t", "r", "u", "c", "t", "o", "r">> ->
            Return(s)                                \* Object(state) is state
      [] name \in {<<"t", "o", "S", "t", "r", "i", "n", "g">>,
                   <<"t", "o", "L", "o", "c", "a", "l", "e", "S", "t", "r", "i", "n", "g">>} ->
            Return(ObjectObject)
      [] name = <<"v", "a", "l", "u", "e", "O", "f">> ->
            Return([t |-> "dispatchTable"])
      [] name \in {<<"h", "a", "s", "O", "w", "n", "P", "r", "o", "p", "e", "r", "t", "y">>,
                   <<"i", "s", "P", "r", "o", "t", "o", "t", "y", "p", "e", "O", "f">>,
                   <<"p", "r", "o", "p", "e", "r", "t", "y", "I", "s",
                     "E", "n", "u", "m", "e", "r", "a", "b", "l", "e">>} ->
            Return(Bool(FALSE))
      [] name \in {<<"_", "_", "l", "o", "o", "k", "u", "p", "G", "e", "t", "t", "e", "r", "_", "_">>,
                   <<"_", "_", "l", "o", "o", "k", "u", "p", "S", "e", "t", "t", "e", "r", "_", "_">>} ->
            Return(Undef)
      [] OTHER -> TypeError       \* __proto__ is not a function; __defineGetter__
                                  \* and __defineSetter__ reject the action

\* dispatchTable[action.type] ? dispatchTable[action.type](state, action) : state
doAction2(s, action) ==
    IF action.type \in DispatchKeys THEN Return(NewState(s, action))
    ELSE IF action.type \in ObjectPrototypeKeys
         THEN CallBuiltin(action.type, s, action)
         ELSE Return(s)

ReducerInit ==
    /\ store = InitialState
    /\ dispatched = NoAction
    /\ viaSwitch = NoOutcome
    /\ viaTable = NoOutcome
    /\ ndispatch = 0
    /\ MemoIdle /\ FibIdle /\ OnceIdle /\ PipeIdle /\ CurryIdle /\ TreeIdle /\ ChainIdle /\ CounterIdle /\ RaceIdle /\ TrampIdle /\ Pipe2Idle /\ UnaryIdle

\* the action is reduced from the current state by both reducers; the
\* state goes on as doAction gives it
Dispatch(action) ==
    /\ ndispatch < MaxDispatch
    /\ ndispatch' = ndispatch + 1
    /\ dispatched' = action
    /\ viaSwitch' = doAction(store, action)
    /\ viaTable' = doAction2(store, action)
    /\ store' = doAction(store, action).v
    /\ UNCHANGED notReducerVars

ReducerNext == \E action \in Actions : Dispatch(action)

ReducerSpec == ReducerInit /\ [][ReducerNext]_vars

----------------------------------------------------------------------------
(* The wrapper x => ... of memoize called with more arguments than one.     *)

\* the argument lists the wrapper is called with
UnaryArgLists ==
    { <<>>,
      <<Num(1)>>,
      <<Num(1), Num(2)>>,
      <<Num(1), Str(<<"z">>)>>,
      <<Str(<<"1">>), Num(2)>>,
      <<Num(2), Num(1)>> }

UnaryInit ==
    /\ unaryFn \in Fns
    /\ unaryCache = <<>>
    /\ unaryLast = NoUnaryCall
    /\ unaryStored = {}
    /\ unaryCalls = 0
    /\ MemoIdle /\ FibIdle /\ OnceIdle /\ PipeIdle /\ CurryIdle /\ TreeIdle /\ ChainIdle /\ CounterIdle /\ RaceIdle /\ TrampIdle /\ Pipe2Idle /\ ReducerIdle

\* memoized(...args)
UnaryCall(args) ==
    /\ unaryCalls < MaxUnaryCalls
    /\ LET r == memoize(unaryFn, unaryCache, args)
       IN  /\ unaryCache' = r.cache
           /\ unaryLast' = [args |-> args, out |-> r.out, hit |-> r.hit, key |-> r.key,
                            passed |-> r.passed,
                            known |-> Arg(args, 1) \in unaryStored, made |-> TRUE]
           /\ unaryStored' = IF r.cache # unaryCache
                             THEN unaryStored \cup {Arg(args, 1)}
                             ELSE unaryStored
    /\ unaryCalls' = unaryCalls + 1
    /\ UNCHANGED unaryFn
    /\ UNCHANGED notUnaryVars

UnaryNext == \E args \in UnaryArgLists : UnaryCall(args)

UnarySpec == UnaryInit /\ [][UnaryNext]_vars

----------------------------------------------------------------------------
(* Properties of the memoizers, checked under Spec. *)

\* the functions of Fns that return for every argument list
NonThrowing == {f \in Fns : \A a \in ArgLists : Apply(f, a).k = "return"}

\* the number of own properties of the two caches together
Entries == Cardinality(DOMAIN cache[1]) + Cardinality(DOMAIN cache[2])

\* C1: a wrapper made by memoize or memoize4 around a fn that does not throw
\* invokes fn at most once for each cache key: every key fn was invoked for
\* was invoked once and is stored, a call that finds its key does not invoke
\* fn, and fn has run once per stored entry.
C1_AtMostOncePerKey ==
    (kind \in {"memoize", "memoize4"} /\ fn \in NonThrowing) =>
        /\ \A w \in Wrappers : \A k \in DOMAIN invoked[w] :
              invoked[w][k] = 1 /\ k \in DOMAIN cache[w]
        /\ last.hit => last.passed = <<>>
        /\ (last.keyed /\ In(last.before, last.key)) => last.passed = <<>>
        /\ fnTotal = Entries

\* memoized(5), memoized(5): the second call found the key stored by the first
C1_Witness ==
    /\ kind \in {"memoize", "memoize4"} /\ fn \in NonThrowing
    /\ ncalls = 2 /\ last.hit /\ last.args = <<Num(5)>>
    /\ last.key \in DOMAIN cache[last.w]
    /\ invoked[last.w][last.key] = 1
    /\ fnTotal = 1

\* C2 (as claimed): the wrapper made by memoize returns, for every number,
\* string or boolean argument x, exactly what fn(x) returns.
C2_ReturnsWhatFnReturns ==
    (/\ kind = "memoize" /\ last.w # 0
     /\ Len(last.args) = 1 /\ TypeOf(last.args[1]) \in PRIMITIVES)
        => last.out = Apply(fn, last.args)

\* C3: when fn throws during a cache miss of a memoize4 wrapper, the error
\* reaches the caller as thrown, the cache is what it was before the call and
\* holds no entry for the key, so a later call with these arguments is a miss
\* again; no result of a throwing call is ever stored.
C3_ErrorNotCached ==
    kind = "memoize4" =>
        /\ (last.passed # <<>> /\ Apply(fn, last.args).k = "throw") =>
              /\ last.out = Apply(fn, last.args)
              /\ cache[last.w] = last.before
              /\ ~In(cache[last.w], last.key)
        /\ \A w \in Wrappers : \A a \in ArgLists :
              (Apply(fn, a).k = "throw" /\ JSONstringify(a).k = "text") =>
                  ~In(cache[w], JSONstringify(a).s)
        /\ (last.keyed /\ Apply(fn, last.args).k = "throw") =>
              ~last.hit /\ last.passed = <<last.args>>

\* the same failing call made twice: fn was invoked both times
C3_Witness ==
    /\ kind = "memoize4" /\ ncalls = 2
    /\ last.out = Throw("boom") /\ last.passed # <<>>
    /\ invoked[last.w][last.key] = 2
    /\ cache[last.w] = EmptyCache

\* the entries of cache c are entries of cache d, with the same values
Kept(c, d) == \A k \in DOMAIN c : k \in DOMAIN d /\ d[k] = c[k]

\* C4: the caches hold no entry when the wrappers are created, and no call
\* removes an entry or replaces a stored value.
C4_CacheOnlyGrows ==
    /\ \A w \in Wrappers : DOMAIN cache[w] = {}
    /\ [][\A w \in Wrappers : Kept(cache[w], cache'[w])]_vars

\* a second result was stored next to the first
C4_Witness ==
    /\ Cardinality(DOMAIN cache[1]) = 2
    /\ last.w = 1 /\ ~last.hit /\ last.passed # <<>>

\* C5: a call of one wrapper leaves the other wrapper's cache as it was, and
\* whether a call finds its key depends on its own wrapper's cache alone: a
\* key stored only in the other cache is a miss that invokes fn.
C5_IndependentCaches ==
    /\ [](last.keyed =>
            /\ last.hit = In(last.before, last.key)
            /\ ~last.hit => last.passed # <<>>)
    /\ [][\A w \in Wrappers : last'.w # w => cache'[w] = cache[w]]_vars

\* key stored by wrapper 1, then the first call with it on wrapper 2: a miss
C5_Witness ==
    /\ kind = "memoize" /\ ncalls = 2 /\ last.w = 2
    /\ last.key \in DOMAIN cache[1] /\ last.before = EmptyCache
    /\ ~last.hit /\ last.passed # <<>>
    /\ fnTotal = 2

\* v without the reference identities of its containers
RECURSIVE Strip(_)
Strip(v) ==
    CASE v.t = "array" ->
            [t |-> "array", elems |-> [i \in 1..Len(v.elems) |-> Strip(v.elems[i])]]
      [] v.t = "object" ->
            [t |-> "object", keys |-> v.keys,
             vals |-> [i \in 1..Len(v.vals) |-> Strip(v.vals[i])]]
      [] v.t = "backref" -> [t |-> "backref"]
      [] OTHER -> v

\* argument lists a and b are deeply structurally equal: the same shape and
\* the same leaves, whatever the references (a function equals only itself)
DeepEqual(a, b) == Strip(Arr(0, a)) = Strip(Arr(0, b))

\* a holds the values of b in a different order
Reordered(a, b) ==
    /\ Len(a) = Len(b)
    /\ ~DeepEqual(a, b)
    /\ \E p \in Permutations(1..Len(a)) :
          DeepEqual(a, [i \in 1..Len(a) |-> b[p[i]]])

\* the keys stored before the latest call for arguments deeply equal to its own
StoredEqual ==
    {k \in DOMAIN last.before : DeepEqual(origin[last.w][k], last.args)}

\* the keys stored before the latest call for its arguments in another order
StoredReordered ==
    {k \in DOMAIN last.before : Reordered(origin[last.w][k], last.args)}

\* C6: under memoize4, a call whose arguments are deeply equal to those of a
\* stored entry (freshly constructed or not) derives that entry's key and is
\* served from it without invoking fn; a call with the values of a stored
\* entry in a different order derives another key and invokes fn.
C6_StructuralKeys ==
    (kind = "memoize4" /\ last.keyed) =>
        /\ \A k \in StoredEqual :
              /\ last.key = k /\ last.hit /\ last.passed = <<>>
              /\ last.out = Return(last.before[k])
        /\ (StoredEqual = {}) =>
              \A k \in StoredReordered :
                 last.key # k /\ ~last.hit /\ last.passed = <<last.args>>

\* [1, {a: 2}] built twice: the second call is served the first one's entry
C6_Witness ==
    /\ kind = "memoize4" /\ fn = "identity" /\ ncalls = 2
    /\ last.args = <<Nested(3)>> /\ last.hit
    /\ origin[last.w][last.key] = <<Nested(1)>>
    /\ last.out = Return(Nested(1))
    /\ fnTotal = 1

\* C7 (as claimed): under memoize4 two argument lists share a key only if they
\* are deeply structurally equal, so a call is served a stored result only if
\* its arguments are deeply equal to the arguments the result was computed for.
C7_KeysSeparateDifferentArgs ==
    (kind = "memoize4" /\ last.hit) =>
        DeepEqual(last.args, origin[last.w][last.key])

\* v holds a function value, or a reference back to a container it is in
RECURSIVE Unserializable(_)
Unserializable(v) ==
    CASE v.t \in {"function", "backref"} -> TRUE
      [] v.t = "array" -> \E i \in 1..Len(v.elems) : Unserializable(v.elems[i])
      [] v.t = "object" -> \E i \in 1..Len(v.vals) : Unserializable(v.vals[i])
      [] OTHER -> FALSE

\* C8 (as claimed): under memoize4 and memoize3 a call whose arguments hold a
\* function value or a circular reference ends in an error, without a key,
\* without invoking fn and without a change of the cache.
C8_UnserializableArgsFail ==
    (/\ kind \in {"memoize3", "memoize4"} /\ last.w # 0
     /\ Unserializable(Arr(0, last.args)))
        => /\ last.out.k = "throw" /\ ~last.keyed /\ last.passed = <<>>
           /\ cache[last.w] = last.before

----------------------------------------------------------------------------
(* Properties of the memoized fib, checked under FibSpec. *)

\* <<F(n), F(n + 1)>> of the Fibonacci numbers, by iteration from <<0, 1>>
RECURSIVE FibPair(_)
FibPair(n) ==
    IF n = 0 THEN <<0, 1>>
    ELSE LET q == FibPair(n - 1) IN <<q[2], q[1] + q[2]>>
Fibonacci(n) == FibPair(n)[1]

\* n is stored in the cache of one of the wrappers fib was rebound to
Cached(n) == \E i \in 1..Len(fibCaches) : FibKey(n) \in DOMAIN fibCaches[i]

\* evaluations of the fib body during the current run
RECURSIVE EvalsUpTo(_)
EvalsUpTo(k) == bodyEvals[k] + (IF k = 0 THEN 0 ELSE EvalsUpTo(k - 1))
TotalEvals == EvalsUpTo(MaxN)

\* C9: once fib is rebound to its memoized wrapper, fib(n) is the n-th
\* Fibonacci number, the body runs at most once for each k, and only for
\* k <= n; the first fib(6) on empty caches makes 11 calls through the name
\* fib and evaluates the body once for each k in 0..6; a call fib(k) whose k
\* is stored makes one call and evaluates no body; after fib(n), n >= 2,
\* every k <= n is stored.
C9_MemoizedFib ==
    fibCaches # <<>> =>
        /\ (top.done /\ top.f # "none") =>
              /\ retval = Fibonacci(top.n)
              /\ top.n = 10 => retval = 55
        /\ \A k \in 0..MaxN : memoEvals[k] <= 1
        /\ \A k \in 0..MaxN : bodyEvals[k] > 0 => k <= top.n
        /\ (top.f = "fib" /\ top.done /\ top.cold /\ top.n = 6) =>
              /\ fibCalls = 11
              /\ \A k \in 0..6 : bodyEvals[k] = 1
        /\ (top.f = "fib" /\ top.done /\ top.warm) =>
              fibCalls = 1 /\ TotalEvals = 0
        /\ stack = <<>> =>
              \A n \in 2..MaxN : Cached(n) => \A k \in 0..n : Cached(k)

\* fib(6) ran on the rebound fib, then fib(5): one call, no body evaluation
C9_Witness ==
    /\ Len(fibCaches) = 1 /\ Cached(6) /\ memoEvals[6] = 1
    /\ top.f = "fib" /\ top.n = 5 /\ top.done /\ top.warm
    /\ fibCalls = 1 /\ TotalEvals = 0 /\ retval = 5

\* body evaluations of the unmemoized recursion fib(n)
RECURSIVE NaiveEvals(_)
NaiveEvals(n) == IF n < 2 THEN 1 ELSE 1 + NaiveEvals(n - 2) + NaiveEvals(n - 1)

\* C10: while fib is not rebound, testMemoFib = memoize(n => fib(n)) stores
\* only the arguments it was itself called with: no inner call runs a wrapper,
\* a run leaves the cache unchanged until it stores its own argument, a
\* repeated argument is served without evaluating fib, and any other argument
\* (smaller ones too) runs the whole recursion.
C10_OuterWrapperOnly ==
    (fibCaches = <<>> /\ top.f = "testMemoFib") =>
        /\ \A i \in 1..Len(stack) : stack[i].f = "memoized" => i = 1
        /\ ~top.done => DOMAIN outerCache = top.before
        /\ top.done =>
              /\ DOMAIN outerCache = top.before \cup {FibKey(top.n)}
              /\ retval = Fibonacci(top.n)
              /\ FibKey(top.n) \in top.before => TotalEvals = 0
              /\ FibKey(top.n) \notin top.before => TotalEvals = NaiveEvals(top.n)

\* testMemoFib(4), then testMemoFib(3): a miss that runs all of fib(3)
C10_Witness ==
    /\ fibCaches = <<>> /\ top.f = "testMemoFib" /\ top.done /\ top.n = 3
    /\ FibKey(4) \in top.before /\ FibKey(3) \notin top.before
    /\ DOMAIN outerCache = {FibKey(3), FibKey(4)}
    /\ TotalEvals = 5

----------------------------------------------------------------------------
(* Properties of once, once2, onceAndAfter and onceAndAfter2, checked under *)
(* OnceSpec.                                                                *)

\* C11: however many times the wrapper made by once(fn) has been called, fn
\* has been invoked exactly once: by the first wrapper call, with the
\* arguments of that call.
C11_OnceInvokesOnce ==
    called["once"] # <<>> =>
        closures["once"].log = <<Invocation("f", called["once"][1])>>

\* three calls of the wrapper, the later ones with other arguments
C11_Witness ==
    /\ Len(called["once"]) = 3
    /\ called["once"][2] # called["once"][1]
    /\ Len(closures["once"].log) = 1

\* C12: when func returned on the first call of the wrapper made by
\* once2(func), every call of the wrapper has returned that value, whatever
\* arguments it passed, and func has been invoked by the first call only.
C12_Once2ReturnsFirstResult ==
    called["once2"] # <<>> =>
        /\ closures["once2"].log = <<Invocation("f", called["once2"][1])>>
        /\ results["once2"][1].k = "return" =>
              \A i \in 1..Len(results["once2"]) :
                  results["once2"][i] = Return(Returned("f", called["once2"][1]))

\* func returned on the first call and a later call passed other arguments
C12_Witness ==
    /\ Len(called["once2"]) >= 2
    /\ called["once2"][2] # called["once2"][1]
    /\ results["once2"][1].k = "return"
    /\ results["once2"][2] = results["once2"][1]

\* C13: after the same sequence of calls the wrappers made by
\* onceAndAfter(f, g) and onceAndAfter2(f, g) have invoked the same functions
\* with the same arguments and have given the same results, whether f and g
\* return, throw or call the wrapper again.
C13_SameBehaviour ==
    called["onceAndAfter"] = called["onceAndAfter2"] =>
        /\ closures["onceAndAfter"].log = closures["onceAndAfter2"].log
        /\ results["onceAndAfter"] = results["onceAndAfter2"]

----------------------------------------------------------------------------
(* Properties of pipeline and compose, checked under PipeSpec.              *)

\* the value the k-th function of the list l returns when the first receives
\* args and each later one the value returned by the one before it
RECURSIVE ChainValue(_, _, _)
ChainValue(l, args, k) ==
    IF k = 1 THEN Returned(l[1], args)
    ELSE Returned(l[k], <<ChainValue(l, args, k - 1)>>)

\* the invocations a call has made so far are those of the first functions of
\* l, in the order of l: the first with args, each later one with the one
\* value returned by the one before it
InOrder(l, args) ==
    /\ Len(pipeLog) <= Len(l)
    /\ \A k \in 1..Len(pipeLog) :
          /\ pipeLog[k].f = l[k]
          /\ pipeLog[k].args = (IF k = 1 THEN args ELSE <<ChainValue(l, args, k - 1)>>)

\* C14: a call pipeline(f1, ..., fn)(args...) with n >= 1 invokes the
\* functions from left to right, f1 with all the arguments of the call and
\* each later fi with the return value of the one before it and nothing
\* else; when the call returns each function has been invoked once and the
\* value returned is the one fn returned.
C14_PipelineLeftToRight ==
    (built = "pipeline" /\ Len(given) >= 1 /\ pipeCalls >= 1) =>
        /\ InOrder(given, pipeArgs)
        /\ pipeOut.k = "return" =>
              /\ Len(pipeLog) = Len(given)
              /\ pipeOut.v = ChainValue(given, pipeArgs, Len(given))

\* pipeline(fa, fb, fc)(24, 11, 63) has returned
C14_Witness ==
    /\ built = "pipeline" /\ Len(given) = 3
    /\ Len(pipeArgs) = 3
    /\ pipeOut.k = "return"
    /\ Len(pipeLog) = 3

\* C15: compose(f1, ..., fn)(args...) with n >= 1 does what
\* pipeline(fn, ..., f1)(args...) does: fn is invoked first, with all the
\* arguments, each function receives the value of the one to its right, and
\* the value returned is the one f1 returned.
C15_ComposeRightToLeft ==
    (built = "compose" /\ Len(given) >= 1 /\ pipeCalls >= 1) =>
        /\ fns = pipeline(Reverse(given))
        /\ InOrder(Reverse(given), pipeArgs)
        /\ pipeOut.k = "return" =>
              /\ Len(pipeLog) = Len(given)
              /\ pipeLog[Len(pipeLog)].f = given[1]
              /\ pipeOut.v = ChainValue(Reverse(given), pipeArgs, Len(given))

\* compose of three different functions, called with three arguments, has returned
C15_Witness ==
    /\ built = "compose" /\ Len(given) = 3
    /\ given[1] # given[3]
    /\ Len(pipeArgs) = 3
    /\ pipeOut.k = "return"
    /\ pipeLog[1] = Invocation(given[3], pipeArgs)

----------------------------------------------------------------------------
(* Properties of curryByBind and partialCurryingByBind, checked under       *)
(* CurrySpec.                                                               *)

\* every application so far supplied one argument
OneAtATime == \A k \in 1..Len(groups) : groups[k] = 1

\* fn has run once, with the arguments args, and its value is what the
\* latest application returned
RanOnceWith(args) ==
    /\ fnLog = <<Invocation(curryFn.target, args)>>
    /\ curried = Returned(curryFn.target, args)

\* C16: while curryByBind(fn), fn of declared arity n >= 1, is applied to one
\* argument at a time, each of the first n-1 applications returns a function
\* and fn has not run; the n-th application runs fn once with the n
\* arguments in the order they were given and returns its value.
C16_CurryOneAtATime ==
    (curryBy = "curryByBind" /\ curryFn.length >= 1 /\ OneAtATime
        /\ Len(groups) <= curryFn.length) =>
        IF Len(groups) < curryFn.length
        THEN IsClosure(curried) /\ fnLog = <<>>
        ELSE RanOnceWith(supplied)

\* curryByBind(make3)(a)(b)(c) with a # b has returned make3's value
C16_Witness ==
    /\ curryBy = "curryByBind" /\ curryFn.length = 3
    /\ groups = <<1, 1, 1>>
    /\ supplied[1] # supplied[2]
    /\ curried = Returned("make3", supplied)

\* C17: however the arguments are grouped into applications of
\* partialCurryingByBind(fn), fn of declared arity n, fn has not run while
\* fewer than n arguments have been supplied, and once the n-th has been
\* supplied fn has run exactly once, with the n arguments in order, and its
\* value has been returned.
C17_GroupingDoesNotMatter ==
    (curryBy = "partialCurryingByBind" /\ Len(supplied) <= curryFn.length) =>
        IF Len(supplied) < curryFn.length
        THEN IsClosure(curried) /\ fnLog = <<>>
        ELSE RanOnceWith(supplied)

\* partialCurryingByBind(make3)(a, b)(c) has returned make3's value
C17_Witness ==
    /\ curryBy = "partialCurryingByBind" /\ curryFn.length = 3
    /\ groups = <<2, 1>>
    /\ supplied[1] # supplied[2]
    /\ curried = Returned("make3", supplied)

----------------------------------------------------------------------------
(* Properties of setIn, deleteIn and deepCopy, checked under TreeSpec.      *)

\* the structure below the value o, references left out: what two
\* structures have in common when they are equal but not the same objects
RECURSIVE Tree(_, _)
Tree(h, o) ==
    IF ~IsRef(o) THEN o
    ELSE LET c == h[o.r]
         IN  [t |-> c.t,
              props |-> [key \in {c.keys[p] : p \in 1..Len(c.keys)} |->
                            Tree(h, c.vals[KeyPos(c, key)])]]

\* the objects and arrays that existed before the call are as they were
ObjUnchanged == SubSeq(heap, 1, Len(InitialHeap)) = InitialHeap

\* the path arr leads into the structure o: its indices meet arrays, its
\* names meet objects, and all of it but the last element exists
RECURSIVE Into(_, _, _)
Into(h, o, arr) ==
    /\ IsRef(o)
    /\ IsInteger(arr[1]) <=> h[o.r].t = "array"
    /\ Len(arr) > 1 =>
          /\ KeyPos(h[o.r], ToPropertyKey(arr[1])) # 0
          /\ Into(h, GetProp(h, o, ToPropertyKey(arr[1])), Tail(arr))

\* the property at the end of the path exists as well
Exists(h, o, arr) ==
    /\ Into(h, o, arr)
    /\ LET parent == Walk(h, o, SubSeq(arr, 1, Len(arr) - 1))
       IN  KeyPos(h[parent.r], ToPropertyKey(arr[Len(arr)])) # 0

\* the structure tr with the structure sub at the path arr
RECURSIVE WithAt(_, _, _)
WithAt(tr, arr, sub) ==
    LET key == ToPropertyKey(arr[1])
    IN  [tr EXCEPT !.props =
            [k \in DOMAIN tr.props \cup {key} |->
                IF k # key THEN tr.props[k]
                ELSE IF Len(arr) = 1 THEN sub
                ELSE WithAt(tr.props[key], Tail(arr), sub)]]

\* the structure tr without the property at the path arr
RECURSIVE Without(_, _)
Without(tr, arr) ==
    LET key == ToPropertyKey(arr[1])
    IN  IF Len(arr) = 1
        THEN [tr EXCEPT !.props = [k \in DOMAIN tr.props \ {key} |-> tr.props[k]]]
        ELSE [tr EXCEPT !.props[key] = Without(tr.props[key], Tail(arr))]

\* along the path arr the new structure n is made of objects created by the
\* call, and every other property of these holds the very value (the same
\* reference) that the old structure o holds there
RECURSIVE SharesOffPath(_, _, _)
SharesOffPath(n, o, arr) ==
    LET key == ToPropertyKey(arr[1])
    IN  /\ IsRef(n) /\ n.r > Len(InitialHeap)
        /\ \A p \in 1..Len(heap[o.r].keys) :
              heap[o.r].keys[p] # key =>
                  GetProp(heap, n, heap[o.r].keys[p]) = heap[o.r].vals[p]
        /\ (Len(arr) > 1 /\ IsRef(GetProp(heap, o, key))) =>
              SharesOffPath(GetProp(heap, n, key), GetProp(heap, o, key), Tail(arr))

\* C18: for a path into obj, setIn(path, val, obj) returns a structure that
\* is obj with val at the path, obj and everything in it is unchanged, the
\* objects along the path are new ones and every property off the path
\* holds the same reference as in obj.
C18_SetInFrame ==
    (made.op = "setIn" /\ nassigns = 0 /\ Into(InitialHeap, obj, made.path)) =>
        /\ made.out.k = "return"
        /\ Tree(heap, made.out.v) = WithAt(Tree(InitialHeap, obj), made.path, made.val)
        /\ ObjUnchanged
        /\ SharesOffPath(made.out.v, obj, made.path)

\* myObj2 = setIn(["d", "j"], 88888, myObj1): myObj2.d is a new object and
\* myObj2.d.g is myObj1.d.g
C18_Witness ==
    /\ made.op = "setIn" /\ nassigns = 0 /\ obj = Ref(1)
    /\ made.path = <<Str(<<"d">>), Str(<<"j">>)>>
    /\ made.out.k = "return"
    /\ Walk(heap, made.out.v, made.path) = Num(88888)
    /\ GetProp(heap, made.out.v, <<"d">>) # Ref(2)
    /\ Walk(heap, made.out.v, <<Str(<<"d">>), Str(<<"g">>)>>) = Ref(3)

\* C19: for a path of property names and array indices that exists in obj,
\* deleteIn(path, obj) returns a structure that is obj without the property
\* at the path, and obj is unchanged.
C19_DeleteInRemoves ==
    (made.op = "deleteIn" /\ nassigns = 0 /\ Exists(InitialHeap, obj, made.path)) =>
        /\ made.out.k = "return"
        /\ Tree(heap, made.out.v) = Without(Tree(InitialHeap, obj), made.path)
        /\ ObjUnchanged

\* the references of the objects and arrays in the structure below o
RECURSIVE RefsIn(_, _)
RefsIn(h, o) ==
    IF ~IsRef(o) THEN {}
    ELSE {o.r} \cup UNION {RefsIn(h, h[o.r].vals[p]) : p \in 1..Len(h[o.r].vals)}

\* C20: deepCopy(obj) returns a structure equal to obj in which no object or
\* array is one of obj's, and obj is unchanged after the copy and after
\* every assignment to a property of the copy or of an object inside it.
C20_DeepCopyIndependent ==
    made.op = "deepCopy" =>
        /\ nassigns = 0 => Tree(heap, made.out.v) = Tree(InitialHeap, obj)
        /\ RefsIn(heap, made.out.v) \cap RefsIn(InitialHeap, obj) = {}
        /\ ObjUnchanged

\* newObject = deepCopy(myObj1); newObject.d.g.h = 88888: the copy has changed
C20_Witness ==
    /\ made.op = "deepCopy" /\ obj = Ref(1)
    /\ nassigns = 1
    /\ Walk(heap, made.out.v, <<Str(<<"d">>), Str(<<"g">>)>>) # Ref(3)
    /\ Tree(heap, made.out.v) # Tree(InitialHeap, obj)

----------------------------------------------------------------------------
(* Properties of chainify, checked under ChainSpec.                         *)

\* the value the latest call of the chain for the field passed, if any
RECURSIVE LastSet(_, _)
LastSet(field, n) ==
    IF n = 0 THEN NewHome[field]
    ELSE IF chain[n].method \in Setters /\ FieldOf(chain[n].method) = field
         THEN chain[n].arg
         ELSE LastSet(field, n - 1)

\* C21: a chain of setter calls on a chainified object can have any
\* length: no call of it fails and every field holds the value its latest
\* setter call passed, as in myHome.setCountry(..).setCity(..).setAddress(..).
C21_SetterChainCompletes ==
    (\A n \in 1..Len(chain) : chain[n].method \in Setters) =>
        /\ ~chainErr
        /\ \A field \in DOMAIN NewHome : home[field] = LastSet(field, Len(chain))

----------------------------------------------------------------------------
(* Properties of newCounter, checked under CounterSpec.                     *)

\* C22: the count of every counter is the number of calls made of that
\* counter, whatever calls were made of the others, and the k-th call of a
\* counter returned k.
C22_CounterCountsItsCalls ==
    /\ \A c \in 1..Len(counts) : counts[c] = kcalls[c]
    /\ returned.c # 0 => returned.v = kcalls[returned.c]

\* two counters, the first called three times (1, 2, 3), the second once
C22_Witness ==
    /\ Len(counts) = 2
    /\ kcalls = <<3, 1>>
    /\ returned = [c |-> 1, v |-> 3]

----------------------------------------------------------------------------
(* Properties of concurrent callers of memoize, checked under RaceSpec.     *)

\* the calls that have missed key and have not invoked fn yet
AboutToInvoke(key) ==
    {c \in Callers : racePc[c] = "invoke" /\ ToPropertyKey(raceArg[c]) = key}

\* C23: when two calls for the same key both did their lookup before either
\* stored, both invoke fn, so fn runs at least twice for the key; when every
\* call is one atomic step fn runs at most once for each key.
C23_InterleavingRunsFnTwice ==
    /\ \A key \in overlapped :
          (IF key \in DOMAIN fnRuns THEN fnRuns[key] ELSE 0)
              + Cardinality(AboutToInvoke(key)) >= 2
    /\ raceAtomic => \A key \in DOMAIN fnRuns : fnRuns[key] <= 1

\* two interleaved calls for one key have both returned and fn ran twice for it
C23_Witness ==
    /\ ~raceAtomic
    /\ \A c \in Callers : racePc[c] = "idle"
    /\ \E key \in overlapped : fnRuns[key] = 2

----------------------------------------------------------------------------
(* Further properties of the memoizers, checked under Spec.                 *)

----------------------------------------------------------------------------
(* Properties of trampoline and sumAll3, checked under TrampFairSpec.       *)

\* 0 + 1 + ... + n
RECURSIVE SumTo(_)
SumTo(n) == IF n = 0 THEN 0 ELSE n + SumTo(n - 1)

\* during and after a run at most four calls were ever nested (sumAll3,
\* trampoline, the thunk, and sumAllT or a continuation), and the value
\* returned is 0 + 1 + ... + n
TrampSafe ==
    /\ deepest <= 4
    /\ trampPc = "done" => thunk = Num(SumTo(sumN))

\* C25: every call sumAll3(n), n >= 0, returns, the value it returns is
\* 0 + 1 + ... + n, and the depth of its nested calls never exceeds a
\* bound that is the same for every n.
C25_SumAll3Terminates ==
    /\ []TrampSafe
    /\ (trampPc = "loop") ~> (trampPc = "done")

\* sumAll3(10) has returned 55 after 21 turns of the loop
C25_Witness ==
    /\ trampPc = "done"
    /\ sumN = MaxSum
    /\ thunk = Num(SumTo(MaxSum))
    /\ bounces = 2 * MaxSum + 1

----------------------------------------------------------------------------
(* pipeline2 against pipeline, checked under PipeSpec.                      *)

\* C26: pipeline2(f1, ..., fn) and pipeline(f1, ..., fn), n >= 1, called
\* with the same arguments invoke the same functions in the same order with
\* the same arguments and end with the same outcome; while the pipeline
\* call is still running it has made the first of these invocations.
C26_Pipeline2SameAsPipeline ==
    (fns # <<>> /\ pipeCalls >= 1 /\ pipe2Calls >= 1 /\ pipe2Args = pipeArgs) =>
        IF pipeOut = NoOutcome
        THEN pipeLog = SubSeq(pipe2Log, 1, Len(pipeLog))
        ELSE pipeLog = pipe2Log /\ pipeOut = pipe2Out

\* both called with (24, 11, 63) around three functions, the first and
\* last different, and both have returned
C26_Witness ==
    /\ Len(fns) = 3 /\ fns[1] # fns[3]
    /\ Len(pipeArgs) = 3 /\ pipe2Args = pipeArgs
    /\ pipeOut.k = "return" /\ pipe2Out.k = "return"
    /\ pipeLog = pipe2Log

----------------------------------------------------------------------------
(* doAction2 against doAction, checked under ReducerSpec.                   *)

\* C27: for every state and every action.type string doAction2 gives what
\* doAction gives: the handler's new state for CREATE, DELETE and UPDATE,
\* the state itself for every other type.
C27_DispatchTableSameAsSwitch ==
    ndispatch >= 1 =>
        /\ viaTable = viaSwitch
        /\ dispatched.type \notin DispatchKeys => viaTable.k = "return"

----------------------------------------------------------------------------
(* Cache keys of memoize3, checked under Spec.                              *)

\* args.length === 1 && PRIMITIVES.includes(typeof args[0])
SinglePrimitive(args) == Len(args) = 1 /\ TypeOf(args[1]) \in PRIMITIVES

\* C28: a memoize3 wrapper serves a call from its cache only when the entry
\* was stored by the same argument sequence: an entry stored or read by a
\* single-primitive call is never shared with a call of other arguments, be
\* they a stringified list or a primitive of another type or value.
C28_Memoize3KeysDoNotCollide ==
    (/\ kind = "memoize3" /\ last.w # 0 /\ last.hit
     /\ last.key \in DOMAIN origin[last.w]
     /\ \/ SinglePrimitive(last.args)
        \/ SinglePrimitive(origin[last.w][last.key]))
        => origin[last.w][last.key] = last.args

----------------------------------------------------------------------------
(* once around a function that throws, checked under OnceSpec.              *)

\* invocations of f recorded in the closure of wrapper w
RunsOfF(w) ==
    Cardinality({i \in 1..Len(closures[w].log) : closures[w].log[i].f = "f"})

\* C29: when fn throws on the first call of the wrapper made by once(fn), that
\* call ends with the error, done stays true, fn has been invoked that one
\* time only, and every later call returns undefined without invoking fn.
C29_OnceFailedCallNotRetried ==
    (fBody = "throw" /\ Len(called["once"]) >= 1) =>
        /\ results["once"][1] = Throw("f")
        /\ closures["once"].done
        /\ RunsOfF("once") = 1
        /\ closures["once"].log[1] = Invocation("f", called["once"][1])
        /\ \A i \in 2..Len(results["once"]) : results["once"][i] = Return(Undef)

\* the first call failed and two more calls were made after it
C29_Witness ==
    /\ fBody = "throw"
    /\ Len(called["once"]) >= 3
    /\ results["once"][1].k = "throw"
    /\ results["once"][3] = Return(Undef)

----------------------------------------------------------------------------
(* memoize and the arguments after the first, checked under UnarySpec.      *)

\* C30: the wrapper made by memoize hands fn its first argument only and keys
\* the cache by that argument alone: a call that invokes fn invokes it once,
\* with <<x>>, under the key of x; and a call whose first argument x has had
\* its fn(x) stored is a hit that returns that value without invoking fn,
\* whatever the other arguments are.
C30_MemoizeFirstArgumentOnly ==
    unaryLast.made =>
        LET x == Arg(unaryLast.args, 1)
        IN  /\ unaryLast.key = ToPropertyKey(x)
            /\ unaryLast.passed \in {<<>>, << <<x>> >>}
            /\ unaryLast.known =>
                    /\ unaryLast.hit
                    /\ unaryLast.passed = <<>>
                    /\ unaryLast.out = Apply(unaryFn, <<x>>)

\* memoized(1, 2) stored fn(1), and memoized(1, "z") is answered from it
C30_Witness ==
    /\ unaryLast.args = <<Num(1), Str(<<"z">>)>>
    /\ unaryLast.known /\ unaryLast.hit
    /\ unaryCalls = 2
    /\ unaryStored = {Num(1)}
====
